---- MODULE Spec2Model ----
(***************************************************************************)
(* Verification model of the grid game engine.                             *)
(*                                                                         *)
(*  - N-1 contingency analysis of UnifiedGridEngine                        *)
(*    (src/py/unified_grid_engine.py), specification SpecN1                *)
(*  - the background stepping loop of the web application                  *)
(*    (src/py/web_app.py, src/py/enhanced_web_app.py), specification       *)
(*    SpecSim                                                              *)
(*  - the blackstart scenario of EuropeanGridGame                          *)
(*    (src/py/european_grid_game.py), specification SpecBS                 *)
(*  - the FCR activation of EuropeanGridStandards                          *)
(*    (src/py/european_grid_standards.py), specification SpecFCR           *)
(*  - the stepped game: EuropeanGridGame.step with its grid events and     *)
(*    frequency update, specification SpecGame                             *)
(*  - direct calls of get_system_state and activate_frr, specification     *)
(*    SpecStd                                                              *)
(*  - building and solving a UnifiedGridEngine: add_bus, add_branch,       *)
(*    solve_power_flow, the sequential contingency runner, specification   *)
(*    SpecPF                                                               *)
(*  - the blackstart scenario while components are added and             *)
(*    reconfigured (src/py/european_grid_game.py, src/py/web_app.py),      *)
(*    specification SpecReconf                                             *)
(*  - the automatic voltage regulators of EuropeanGridGame,                *)
(*    specification SpecAVR                                                *)
(*  - PowerGridGame (src/py/power_grid_game.py): placements against the    *)
(*    budget, specification SpecPG, and the command history with undo and  *)
(*    redo, specification SpecUndo                                         *)
(*                                                                         *)
(* Quantities are fixed point: voltages in 1e-4 per unit (10000 = 1.0 pu), *)
(* loadings in percent, powers in MW, frequency deviations in mHz, times   *)
(* in minutes; the stepped game counts micro-Hz and seconds, the solved    *)
(* engine 1e-2 per unit.  Every specification moves the variables of its   *)
(* own part and leaves the other parts as constructed.                     *)
(***************************************************************************)
EXTENDS Integers, Sequences, FiniteSets, Bags, TLC

(***************************************************************************)
(* Bounds of the model                                                     *)
(***************************************************************************)
NumBranches == 2        \* branches of the modelled network
NumBuses == 10          \* buses of the modelled network
CpuCount == 2           \* os.cpu_count() of the modelled machine
MaxLoopThreads == 3     \* loop threads the web application spawns
NumHandlers == 2        \* request handler threads of the web server
NumComponents == 3      \* components of the modelled grid game
MaxDev == 210           \* largest frequency deviation, in mHz
MaxFcrActivations == 2  \* cap of the stats.fcr_activations counter
NumGridComponents == 2  \* components added to the stepped game
MaxTime == 31           \* seconds of game time that are stepped
MaxEvents == 1          \* grid events executed while stepping
MaxProbe == 801         \* largest deviation classified directly, in mHz
MaxFrrProbe == 100      \* largest deviation passed to activate_frr directly, in mHz
MaxFrrActivations == 2  \* cap of the stats.frr_activations counter of direct calls
MaxBranchId == 2        \* circuits a caller adds to the solved engine

Branches == 1..NumBranches
Buses == 1..NumBuses

Min(a, b) == IF a <= b THEN a ELSE b
Max(a, b) == IF a >= b THEN a ELSE b

(***************************************************************************)
(* UnifiedGridEngine: construction                                         *)
(***************************************************************************)
\* GridBus.voltage_min / voltage_max defaults (0.90 pu, 1.10 pu)
voltage_min == 9000
voltage_max == 11000

\* self.max_workers = min(8, os.cpu_count())
max_workers == Min(8, CpuCount)

\* self.use_parallel = True
use_parallel == TRUE

\* gen_p_max of the buses of the network: 100 MW units, then the large unit,
\* and on the last bus a small unit below the N-1 threshold
gen_p_max(bus) ==
    IF bus = NumBuses THEN 50 ELSE IF bus = NumBuses - 1 THEN 1000 ELSE 100

\* dispatch of the generators before the analysis (gen_p, gen_q): the large
\* unit and the small unit are running, the 100 MW units are in reserve
InitGenP(bus) ==
    IF bus = NumBuses THEN 20 ELSE IF bus = NumBuses - 1 THEN 500 ELSE 0
InitGenQ(bus) ==
    IF bus = NumBuses THEN 5 ELSE IF bus = NumBuses - 1 THEN 100 ELSE 0

\* thread 0 is the calling thread, 1..max_workers the pool's workers
Threads == 0..max_workers

VARIABLES
    rating_a,           \* GridBranch.rating_a of every branch (MVA)
    is_online,          \* GridBranch.is_online of every branch
    gen_p,              \* GridBus.gen_p of every bus
    gen_q,              \* GridBus.gen_q of every bus
    voltage_magnitude,  \* GridBus.voltage_magnitude of every bus
    loading_percent,    \* GridBranch.loading_percent of every branch
    matrices_valid,     \* self._matrices_valid
    n1_phase,           \* "idle", "running", "done": run_n1_contingency_analysis
    n1_parallel,        \* TRUE when the call took _run_contingencies_parallel
    contingencies,      \* the list built by run_n1_contingency_analysis
    next_task,          \* index of the next contingency to be started
    wpc,                \* position of every thread in _run_single_contingency
    wcont,              \* contingency a thread is processing
    wsnap,              \* original_state a thread saved
    wres,               \* result (or raised marker) a thread computed
    results,            \* the result list, as a bag of results
    pre,                \* ghost: the state immediately before the call
    raised              \* ghost: contingencies whose processing raised

n1vars == <<rating_a, is_online, gen_p, gen_q, voltage_magnitude,
            loading_percent, matrices_valid, n1_phase, n1_parallel,
            contingencies, next_task, wpc, wcont, wsnap, wres, results,
            pre, raised>>

VARIABLES
    simulation_running, \* the global flag of the web application
    simulation_thread,  \* the global reference to the last loop thread (0 = None)
    loop_pc,            \* position of every loop thread in run_simulation
    handler_pc,         \* position of every handler in start_european_simulation
    handler_ret         \* the response a handler returned last

simvars == <<simulation_running, simulation_thread, loop_pc, handler_pc,
             handler_ret>>

VARIABLES
    standards_blackstart,           \* whether self.standards has a blackstart table
    components,                     \* self.components, in insertion order
    blackstart_capability_status,   \* self.blackstart_capability_status
    blackstart_scenario_active,     \* self.blackstart_scenario_active
    restoration_sequence,           \* self.restoration_sequence
    current_restoration_phase,      \* self.current_restoration_phase (the cursor)
    bs_ret                          \* outcome of the last blackstart call

bsvars == <<standards_blackstart, components, blackstart_capability_status,
            blackstart_scenario_active, restoration_sequence,
            current_restoration_phase, bs_ret>>

VARIABLES
    fcr_available,      \* self.fcr_available (MW)
    fcr_input,          \* frequency_deviation passed to the last activate_fcr
    fcr_activation,     \* activation the standards returned, in 1/FcrRange
    fcr_response,       \* fcr_response returned, in MW/FcrRange
    fcr_activations     \* self.stats.fcr_activations

fcrvars == <<fcr_available, fcr_input, fcr_activation, fcr_response,
             fcr_activations>>

VARIABLES
    grid,                   \* self.components as add_component builds them
    time_elapsed,           \* self.time_elapsed (s)
    frequency_deviation,    \* self.frequency_deviation, in uHz
    system_state,           \* self.system_state
    load_demand,            \* self.load_demand (MW)
    generation_capacity,    \* self.generation_capacity (MW)
    frr_available,          \* self.frr_available (MW)
    stats,                  \* self.stats, without fcr_activations
    n_minus_1_secure,       \* what check_n_minus_1_security returned last
    events_executed,        \* ghost: number of grid events executed
    frequency_trace         \* ghost: the deviation along the last update_frequency

gamevars == <<grid, time_elapsed, frequency_deviation, system_state,
              load_demand, generation_capacity, frr_available, stats,
              n_minus_1_secure, events_executed, frequency_trace>>

VARIABLES
    std_ret             \* the last direct call of a standards function

stdvars == <<std_ret>>

VARIABLES
    engine,             \* the UnifiedGridEngine that is built and solved:
                        \* buses, branches, _y_matrix, _bus_index_map,
                        \* _matrices_valid
    pf_call             \* the last call on that engine and what it gave back

pfvars == <<engine, pf_call>>

VARIABLES
    excitation_table,       \* standards.voltage.excitation_system_floor and
                            \* excitation_system_ceiling, when they exist
    avr_components,         \* self.components as the voltage control reads
                            \* and writes them
    voltage_control_active, \* self.voltage_control_active
    avr_ret                 \* the last voltage control call and its return

avrvars == <<excitation_table, avr_components, voltage_control_active,
             avr_ret>>

VARIABLES
    pg_components,          \* PowerGridGame.components: id -> component
    pg_lines,               \* PowerGridGame.lines: id -> line
    grid_nodes,             \* PowerGridGame.grid_nodes: id -> node
    budget,                 \* PowerGridGame.stats.budget
    component_counter,      \* the three id counters
    line_counter,
    node_counter,
    command_history,        \* the commands that can be undone and redone
    current_command_index,  \* index (from 0) of the last executed command
    pg_ret                  \* the last PowerGridGame call and its return

pgvars == <<pg_components, pg_lines, grid_nodes, budget, component_counter,
            line_counter, node_counter, command_history,
            current_command_index, pg_ret>>

vars == <<n1vars, simvars, bsvars, fcrvars, gamevars, stdvars, pfvars,
          avrvars, pgvars>>

\* the variables every part leaves alone
outsideN1 == <<simvars, bsvars, fcrvars, gamevars, stdvars, pfvars,
      avrvars, pgvars>>
outsideSim == <<n1vars, bsvars, fcrvars, gamevars, stdvars, pfvars,
      avrvars, pgvars>>
outsideBS == <<n1vars, simvars, fcrvars, gamevars, stdvars, pfvars,
      avrvars, pgvars>>
outsideFCR == <<n1vars, simvars, bsvars, gamevars, stdvars, pfvars,
      avrvars, pgvars>>

(***************************************************************************)
(* Inputs of the power flow: what a solve can produce                      *)
(***************************************************************************)
\* solved cases <<voltage of the weakest bus, loading of the energised
\* branches>>: nominal, both violations on their thresholds, and each
\* violation just beyond its threshold
NominalCase == <<10000, 50>>
StressedCases ==
    {NominalCase, <<8500, 120>>, <<8499, 50>>, <<11501, 50>>, <<10000, 121>>}

\* the outage of the last line can stress the network or break the solve;
\* any other outage leaves the network at the nominal case
WeakLine(cont) == cont.type = "line" /\ cont.component_id = NumBranches

SolvedCases(cont) == IF WeakLine(cont) THEN StressedCases ELSE {NominalCase}

CanFail(cont) == WeakLine(cont)

\* solved voltage profile: the weakest bus settles at v, the others at 1.0
VoltageSolution(v) == [b \in Buses |-> IF b = NumBuses THEN v ELSE 10000]

\* solved loadings: every energised branch carries the same loading
LoadingSolution(l) == [br \in Branches |-> l]

NoCont == [type |-> "none", component_id |-> 0]
NoSnap == [branches |-> <<>>, gen_p |-> <<>>, gen_q |-> <<>>]
NoRes == [type |-> "none", component_id |-> 0, converged |-> FALSE,
          max_voltage_violation |-> 0, max_thermal_violation |-> 0,
          critical |-> FALSE]

(***************************************************************************)
(* run_n1_contingency_analysis: the list of contingencies                  *)
(***************************************************************************)
RECURSIVE LineContingencies(_)
LineContingencies(b) ==
    IF b > NumBranches THEN <<>>
    ELSE (IF rating_a[b] >= 100
          THEN <<[type |-> "line", component_id |-> b]>>
          ELSE <<>>) \o LineContingencies(b + 1)

RECURSIVE GeneratorContingencies(_)
GeneratorContingencies(b) ==
    IF b > NumBuses THEN <<>>
    ELSE (IF gen_p_max(b) >= 100
          THEN <<[type |-> "generator", component_id |-> b]>>
          ELSE <<>>) \o GeneratorContingencies(b + 1)

DefineContingencies == LineContingencies(1) \o GeneratorContingencies(1)

\* if parallel and self.use_parallel and len(contingencies) > 10
TakesParallelPath(parallel, conts) ==
    parallel /\ use_parallel /\ Len(conts) > 10

(***************************************************************************)
(* _save_system_state / _restore_system_state                              *)
(***************************************************************************)
save_system_state ==
    [branches |-> is_online, gen_p |-> gen_p, gen_q |-> gen_q]

\* variant: the saved state is dropped, the perturbed state stays
restore_system_state_dropped(state) ==
    [branches |-> is_online, gen_p |-> gen_p, gen_q |-> gen_q]

restore_system_state(state) ==
    [branches |-> state.branches, gen_p |-> state.gen_p, gen_q |-> state.gen_q]

(***************************************************************************)
(* _run_single_contingency: analysis of a solved case                      *)
(***************************************************************************)
BusViolation(v) ==
    IF v < voltage_min THEN voltage_min - v
    ELSE IF v > voltage_max THEN v - voltage_max
    ELSE 0

RECURSIVE MaxVoltageViolation(_, _)
MaxVoltageViolation(vm, b) ==
    IF b > NumBuses THEN 0
    ELSE Max(BusViolation(vm[b]), MaxVoltageViolation(vm, b + 1))

RECURSIVE MaxThermalViolation(_, _)
MaxThermalViolation(lp, b) ==
    IF b > NumBranches THEN 0
    ELSE Max(IF lp[b] > 100 THEN lp[b] - 100 ELSE 0,
             MaxThermalViolation(lp, b + 1))

\* variant: the voltage threshold taken inclusively
IsCritical_inclusive(converged, mvv, mtv) ==
    (~converged) \/ mvv >= 500 \/ mtv > 20

\* critical = (not converged or max_voltage_violation > 0.05
\*             or max_thermal_violation > 20)
IsCritical(converged, mvv, mtv) ==
    (~converged) \/ mvv > 500 \/ mtv > 20

ContingencyResult(cont, converged, mvv, mtv) ==
    [type |-> cont.type, component_id |-> cont.component_id,
     converged |-> converged,
     max_voltage_violation |-> mvv, max_thermal_violation |-> mtv,
     critical |-> IsCritical(converged, mvv, mtv)]

\* the result the except branch of the runner creates
FailedResult(cont) ==
    [type |-> cont.type, component_id |-> cont.component_id,
     converged |-> FALSE,
     max_voltage_violation |-> 0, max_thermal_violation |-> 0,
     critical |-> TRUE]

(***************************************************************************)
(* solve_power_flow: a converged solve writes the bus voltages and the     *)
(* loading of every energised branch                                       *)
(***************************************************************************)
calculate_branch_flows(sol) ==
    [br \in Branches |->
        IF is_online[br] /\ rating_a[br] > 0 THEN sol[br]
        ELSE loading_percent[br]]

(***************************************************************************)
(* Initial state: the network as built, no analysis running                *)
(***************************************************************************)
EngineAsBuilt ==
    /\ is_online = [b \in Branches |-> TRUE]
    /\ gen_p = [b \in Buses |-> InitGenP(b)]
    /\ gen_q = [b \in Buses |-> InitGenQ(b)]
    /\ voltage_magnitude = [b \in Buses |-> 10000]
    /\ loading_percent = [b \in Branches |-> 0]
    /\ matrices_valid = FALSE
    /\ n1_phase = "idle"
    /\ n1_parallel = FALSE
    /\ contingencies = <<>>
    /\ next_task = 1
    /\ wpc = [t \in Threads |-> "idle"]
    /\ wcont = [t \in Threads |-> NoCont]
    /\ wsnap = [t \in Threads |-> NoSnap]
    /\ wres = [t \in Threads |-> NoRes]
    /\ results = EmptyBag
    /\ pre = NoSnap
    /\ raised = {}

\* line 1 is rated below or at the N-1 threshold of 100 MVA
InitEngine ==
    /\ rating_a \in {[b \in Branches |-> IF b = 1 THEN r ELSE 300] : r \in {50, 100}}
    /\ EngineAsBuilt

\* the engine of the other specifications: built, never analysed
ParkedN1 ==
    /\ rating_a = [b \in Branches |-> 300]
    /\ EngineAsBuilt

(***************************************************************************)
(* run_n1_contingency_analysis(parallel)                                   *)
(***************************************************************************)
RunN1(parallel) ==
    /\ n1_phase = "idle"
    /\ contingencies' = DefineContingencies
    /\ n1_parallel' = TakesParallelPath(parallel, DefineContingencies)
    /\ n1_phase' = "running"
    /\ next_task' = 1
    /\ results' = EmptyBag
    /\ pre' = save_system_state
    /\ UNCHANGED <<rating_a, is_online, gen_p, gen_q, voltage_magnitude,
                   loading_percent, matrices_valid, wpc, wcont, wsnap, wres,
                   raised>>
    /\ UNCHANGED outsideN1

\* the threads that run contingencies: the pool's workers on the parallel
\* path, the calling thread on the sequential path
Runs(t) == IF n1_parallel THEN t >= 1 ELSE t = 0

\* a thread takes the next contingency, saves the original state and applies
\* the contingency: opens the line, or zeroes the generator
StartContingency(t) ==
    /\ n1_phase = "running"
    /\ Runs(t)
    /\ wpc[t] = "idle"
    /\ next_task <= Len(contingencies)
    /\ LET cont == contingencies[next_task] IN
         /\ wcont' = [wcont EXCEPT ![t] = cont]
         /\ IF cont.type = "line"
            THEN /\ is_online' = [is_online EXCEPT ![cont.component_id] = FALSE]
                 /\ matrices_valid' = FALSE
                 /\ UNCHANGED <<gen_p, gen_q>>
            ELSE /\ gen_p' = [gen_p EXCEPT ![cont.component_id] = 0]
                 /\ gen_q' = [gen_q EXCEPT ![cont.component_id] = 0]
                 /\ UNCHANGED <<is_online, matrices_valid>>
    /\ next_task' = next_task + 1
    /\ wsnap' = [wsnap EXCEPT ![t] = save_system_state]
    /\ wpc' = [wpc EXCEPT ![t] = "applied"]
    /\ UNCHANGED <<rating_a, voltage_magnitude, loading_percent, n1_phase,
                   n1_parallel, contingencies, wres, results, pre, raised>>
    /\ UNCHANGED outsideN1

\* solve_power_flow converges: voltages and flows are written, the case is
\* analysed
SolveConverged(t) ==
    /\ wpc[t] = "applied"
    /\ \E c \in SolvedCases(wcont[t]) :
       LET vs == VoltageSolution(c[1])
           ls == LoadingSolution(c[2]) IN
         /\ voltage_magnitude' = vs
         /\ loading_percent' = calculate_branch_flows(ls)
         /\ wres' = [wres EXCEPT ![t] =
                ContingencyResult(wcont[t], TRUE,
                    MaxVoltageViolation(vs, 1),
                    MaxThermalViolation(calculate_branch_flows(ls), 1))]
    /\ matrices_valid' = TRUE
    /\ wpc' = [wpc EXCEPT ![t] = "analyzed"]
    /\ UNCHANGED <<rating_a, is_online, gen_p, gen_q, n1_phase, n1_parallel,
                   contingencies, next_task, wcont, wsnap, results, pre,
                   raised>>
    /\ UNCHANGED outsideN1

\* solve_power_flow returns False: nothing is written
SolveNotConverged(t) ==
    /\ wpc[t] = "applied"
    /\ CanFail(wcont[t])
    /\ wres' = [wres EXCEPT ![t] = ContingencyResult(wcont[t], FALSE, 0, 0)]
    /\ matrices_valid' = TRUE
    /\ wpc' = [wpc EXCEPT ![t] = "analyzed"]
    /\ UNCHANGED <<rating_a, is_online, gen_p, gen_q, voltage_magnitude,
                   loading_percent, n1_phase, n1_parallel, contingencies,
                   next_task, wcont, wsnap, results, pre, raised>>
    /\ UNCHANGED outsideN1

\* the solve raises: no result is built, the exception propagates
SolveRaises(t) ==
    /\ wpc[t] = "applied"
    /\ CanFail(wcont[t])
    /\ raised' = raised \cup {wcont[t]}
    /\ wpc' = [wpc EXCEPT ![t] = "raised"]
    /\ UNCHANGED <<rating_a, is_online, gen_p, gen_q, voltage_magnitude,
                   loading_percent, matrices_valid, n1_phase, n1_parallel,
                   contingencies, next_task, wcont, wsnap, wres, results, pre>>
    /\ UNCHANGED outsideN1

\* finally: restore the saved state; the result, or the failed result the
\* runner builds for a raised exception, is appended to the list
RestoreAndReturn(t) ==
    /\ wpc[t] \in {"analyzed", "raised"}
    /\ LET s == restore_system_state(wsnap[t]) IN
         /\ is_online' = s.branches
         /\ gen_p' = s.gen_p
         /\ gen_q' = s.gen_q
    /\ matrices_valid' = FALSE
    /\ results' = results (+) SetToBag(
            {IF wpc[t] = "raised" THEN FailedResult(wcont[t]) ELSE wres[t]})
    /\ wpc' = [wpc EXCEPT ![t] = "idle"]
    /\ wcont' = [wcont EXCEPT ![t] = NoCont]
    /\ wsnap' = [wsnap EXCEPT ![t] = NoSnap]
    /\ wres' = [wres EXCEPT ![t] = NoRes]
    /\ UNCHANGED <<rating_a, voltage_magnitude, loading_percent, n1_phase,
                   n1_parallel, contingencies, next_task, pre, raised>>
    /\ UNCHANGED outsideN1

\* every contingency has been processed: the call returns the results
ReturnResults ==
    /\ n1_phase = "running"
    /\ next_task > Len(contingencies)
    /\ \A t \in Threads : wpc[t] = "idle"
    /\ n1_phase' = "done"
    /\ UNCHANGED <<rating_a, is_online, gen_p, gen_q, voltage_magnitude,
                   loading_percent, matrices_valid, n1_parallel, contingencies,
                   next_task, wpc, wcont, wsnap, wres, results, pre, raised>>
    /\ UNCHANGED outsideN1

NextN1 ==
    \/ \E parallel \in BOOLEAN : RunN1(parallel)
    \/ \E t \in Threads : StartContingency(t)
    \/ \E t \in Threads : SolveConverged(t)
    \/ \E t \in Threads : SolveNotConverged(t)
    \/ \E t \in Threads : SolveRaises(t)
    \/ \E t \in Threads : RestoreAndReturn(t)
    \/ ReturnResults

(***************************************************************************)
(* Properties of the N-1 contingency analysis                              *)
(***************************************************************************)
Processing(t) == wpc[t] # "idle"

\* the branches offline now that were online before the analysis, and the
\* generators zeroed now that were dispatched before the analysis
TakenOffline == {b \in Branches : pre.branches[b] /\ ~is_online[b]}
Zeroed == {b \in Buses : (gen_p[b] # pre.gen_p[b] \/ gen_q[b] # pre.gen_q[b])}

\* C1: after run_n1_contingency_analysis has returned, every branch's
\* is_online flag and every bus's gen_p and gen_q equal their values
\* immediately before the call, on the sequential and on the parallel path.
C1_StateRestoredAfterAnalysis ==
    n1_phase = "done" =>
        /\ is_online = pre.branches
        /\ gen_p = pre.gen_p
        /\ gen_q = pre.gen_q

\* C2: between its snapshot and its restore a contingency sees only its own
\* perturbation: the snapshot it took equals the pre-analysis state, and the
\* only branch offline or generator zeroed relative to the pre-analysis
\* state is the contingency's own component.
C2_NoForeignPerturbation ==
    \A t \in Threads : Processing(t) =>
        /\ wsnap[t] = pre
        /\ TakenOffline \subseteq
             (IF wcont[t].type = "line" THEN {wcont[t].component_id} ELSE {})
        /\ Zeroed \subseteq
             (IF wcont[t].type = "generator" THEN {wcont[t].component_id} ELSE {})

ResultsFor(bag, cont) ==
    {r \in BagToSet(bag) :
        r.type = cont.type /\ r.component_id = cont.component_id}

RECURSIVE SumCopies(_, _)
SumCopies(bag, rs) ==
    IF rs = {} THEN 0
    ELSE LET r == CHOOSE x \in rs : TRUE IN
         CopiesIn(r, bag) + SumCopies(bag, rs \ {r})

\* number of entries of a result list that belong to a contingency
EntriesFor(bag, cont) == SumCopies(bag, ResultsFor(bag, cont))

C3_OneResultEach ==
    /\ \A i \in 1..Len(contingencies) : EntriesFor(results, contingencies[i]) <= 1
    /\ n1_phase = "done" =>
          /\ \A i \in 1..Len(contingencies) : EntriesFor(results, contingencies[i]) = 1
          /\ BagCardinality(results) = Len(contingencies)

C3_FailedMarked ==
    \A cont \in raised : \A r \in ResultsFor(results, cont) :
        (~r.converged) /\ r.critical

C3_RestoredOnRaise ==
    \A t \in Threads :
        (wpc[t] = "raised" /\ wpc'[t] # "raised") =>
            /\ is_online' = wsnap[t].branches
            /\ gen_p' = wsnap[t].gen_p
            /\ gen_q' = wsnap[t].gen_q
            /\ EntriesFor(results', wcont[t]) = 1

\* C3: a contingency whose processing raises still yields exactly one
\* result, marked converged = False and critical = True; every contingency
\* of the batch yields one result, so the returned list has one entry per
\* contingency; and the state saved for the failed contingency is restored.
C3_FailureIsolated ==
    /\ [](C3_OneResultEach /\ C3_FailedMarked)
    /\ [][C3_RestoredOnRaise]_vars

\* a parallel analysis has returned in which one contingency raised
C3_Witness ==
    /\ n1_phase = "done"
    /\ n1_parallel
    /\ raised # {}
    /\ BagCardinality(results) = Len(contingencies)

AllResults == BagToSet(results) \cup {wres[t] : t \in {u \in Threads : wpc[u] = "analyzed"}}

\* C9: a contingency result is critical exactly when the solve did not
\* converge, or the worst voltage violation is above 0.05 pu, or the worst
\* thermal violation is above 20 points; 0.05 pu exactly, converged and with
\* at most 20 points of overload, is not critical.
C9_CriticalExactly ==
    \A r \in AllResults :
        /\ r.critical <=>
              ((~r.converged) \/ r.max_voltage_violation > 500
                              \/ r.max_thermal_violation > 20)
        /\ (r.converged /\ r.max_voltage_violation = 500
                        /\ r.max_thermal_violation <= 20) => ~r.critical

\* a converged contingency with a violation of exactly 0.05 pu was recorded
C9_Witness ==
    \E r \in BagToSet(results) :
        /\ r.converged
        /\ r.max_voltage_violation = 500
        /\ ~r.critical

(***************************************************************************)
(* web_app.py / enhanced_web_app.py: the background stepping loop          *)
(***************************************************************************)
LoopThreads == 1..MaxLoopThreads
Handlers == 1..NumHandlers

InitSim ==
    /\ simulation_running = FALSE
    /\ simulation_thread = 0
    /\ loop_pc = [t \in LoopThreads |-> "unborn"]
    /\ handler_pc = [h \in Handlers |-> "idle"]
    /\ handler_ret = [h \in Handlers |-> "none"]

ParkedSim == InitSim

Unborn == {t \in LoopThreads : loop_pc[t] = "unborn"}

\* start_european_simulation: if simulation_running: return 'already running'
StartCheck(h) ==
    /\ handler_pc[h] = "idle"
    /\ IF simulation_running
       THEN /\ handler_ret' = [handler_ret EXCEPT ![h] = "already running"]
            /\ UNCHANGED handler_pc
       ELSE /\ handler_pc' = [handler_pc EXCEPT ![h] = "checked"]
            /\ UNCHANGED handler_ret
    /\ UNCHANGED <<simulation_running, simulation_thread, loop_pc>>
    /\ UNCHANGED outsideSim

\* start_european_simulation: simulation_running = True, then the thread is
\* created and started
StartSpawn(h) ==
    /\ handler_pc[h] = "checked"
    /\ Unborn # {}
    /\ LET t == CHOOSE u \in Unborn : \A w \in Unborn : u <= w IN
         /\ loop_pc' = [loop_pc EXCEPT ![t] = "test"]
         /\ simulation_thread' = t
    /\ simulation_running' = TRUE
    /\ handler_pc' = [handler_pc EXCEPT ![h] = "idle"]
    /\ handler_ret' = [handler_ret EXCEPT ![h] = "started"]
    /\ UNCHANGED outsideSim

\* stop_european_simulation: simulation_running = False
StopSimulation(h) ==
    /\ handler_pc[h] = "idle"
    /\ simulation_running' = FALSE
    /\ handler_ret' = [handler_ret EXCEPT ![h] = "stopped"]
    /\ UNCHANGED <<simulation_thread, loop_pc, handler_pc>>
    /\ UNCHANGED outsideSim

\* run_simulation: while simulation_running
LoopTest(t) ==
    /\ loop_pc[t] = "test"
    /\ loop_pc' = [loop_pc EXCEPT ![t] =
                      IF simulation_running THEN "step" ELSE "exited"]
    /\ UNCHANGED <<simulation_running, simulation_thread, handler_pc,
                   handler_ret>>
    /\ UNCHANGED outsideSim

\* run_simulation: european_game.step(1.0) has been executed
LoopStep(t) ==
    /\ loop_pc[t] = "step"
    /\ loop_pc' = [loop_pc EXCEPT ![t] = "sleep"]
    /\ UNCHANGED <<simulation_running, simulation_thread, handler_pc,
                   handler_ret>>
    /\ UNCHANGED outsideSim

\* run_simulation: time.sleep(1) is over
LoopWake(t) ==
    /\ loop_pc[t] = "sleep"
    /\ loop_pc' = [loop_pc EXCEPT ![t] = "test"]
    /\ UNCHANGED <<simulation_running, simulation_thread, handler_pc,
                   handler_ret>>
    /\ UNCHANGED outsideSim

NextSim ==
    \/ \E h \in Handlers : StartCheck(h)
    \/ \E h \in Handlers : StartSpawn(h)
    \/ \E h \in Handlers : StopSimulation(h)
    \/ \E t \in LoopThreads : LoopTest(t)
    \/ \E t \in LoopThreads : LoopStep(t)
    \/ \E t \in LoopThreads : LoopWake(t)

(***************************************************************************)
(* Properties of the background stepping loop                              *)
(***************************************************************************)
\* the loop threads that are inside european_game.step
Stepping == {t \in LoopThreads : loop_pc[t] = "step"}

\* C4: the background stepping loop never runs concurrently with itself:
\* under any interleaving of start and stop requests at most one loop thread
\* is executing the body of the stepping loop at any time.
C4_SingleLoop == Cardinality(Stepping) <= 1

(***************************************************************************)
(* european_grid_game.py: blackstart capability and restoration            *)
(*                                                                         *)
(* The blackstart methods read self.standards.blackstart.  The class       *)
(* EuropeanGridStandards of european_grid_standards.py sets no such        *)
(* attribute, so with the standards as they are every read raises          *)
(* AttributeError (standards_blackstart = FALSE).  The model also carries  *)
(* the configuration in which the table exists with the values the         *)
(* specification documents (standards_blackstart = TRUE).                  *)
(***************************************************************************)
\* standards.blackstart.minimum_blackstart_capability, in percent
minimum_blackstart_capability == 10
\* standards.blackstart.load_pickup_increment_max, in percent
load_pickup_increment_max == 25

Abs(x) == IF x < 0 THEN -x ELSE x

\* the components a grid is built from: what the blackstart methods read of
\* a component (type, capacity, blackstart_capable, priority) and what they
\* write (is_active, current_output).  has_capacity tells whether the
\* component has the key 'capacity' at all: the methods read
\* component['capacity'], which raises KeyError on a component without it
NewComponent(type, capacity, capable, priority) ==
    [type |-> type, capacity |-> capacity, has_capacity |-> TRUE,
     blackstart_capable |-> capable, priority |-> priority,
     is_active |-> FALSE, current_output |-> 0]

\* some component makes a read of component['capacity'] raise KeyError
MissingCapacity(comps) == \E i \in 1..Len(comps) : ~comps[i].has_capacity

ComponentChoices ==
    {NewComponent("hydro_plant", 300, TRUE, 3),
     NewComponent("gas_plant", 400, TRUE, 3),
     NewComponent("solar_farm", 100, TRUE, 3),
     NewComponent("coal_plant", 800, FALSE, 3),
     NewComponent("load_center", -400, FALSE, 3),
     NewComponent("load_center", -1000, FALSE, 1)}

ComponentMaps ==
    UNION {[1..n -> ComponentChoices] : n \in 0..NumComponents}

\* self.blackstart_capability_status = None
NoStatus ==
    [assessed |-> FALSE, total_blackstart_capacity |-> 0, total_demand |-> 0,
     meets_european_standard |-> FALSE]

NoReturn == [op |-> "none", result |-> "none", value |-> <<>>]

Return(op, result, value) == [op |-> op, result |-> result, value |-> value]

\* _get_blackstart_time: minutes to start a generator of a type
get_blackstart_time(generator_type) ==
    CASE generator_type = "hydro_plant" -> 5
      [] generator_type = "gas_plant" -> 10
      [] generator_type = "coal_plant" -> 30
      [] generator_type = "nuclear_plant" -> 60
      [] generator_type = "wind_farm" -> 2
      [] generator_type = "solar_farm" -> 1
      [] OTHER -> 15

\* priority_order.get(type, 5)
priority_order(generator_type) ==
    CASE generator_type = "hydro_plant" -> 1
      [] generator_type = "gas_plant" -> 2
      [] generator_type = "coal_plant" -> 3
      [] generator_type = "nuclear_plant" -> 4
      [] OTHER -> 5

\* the ids, in insertion order, of the components that pass a test
RECURSIVE IdsWhere(_, _)
IdsWhere(test, n) ==
    IF n = 0 THEN <<>>
    ELSE IdsWhere(test, n - 1) \o (IF test[n] THEN <<n>> ELSE <<>>)

\* list.sort(key=...): a stable sort, by insertion
InsertByKey(sorted, x, key) ==
    LET pos == Cardinality({i \in 1..Len(sorted) : key[sorted[i]] <= key[x]}) IN
    SubSeq(sorted, 1, pos) \o <<x>> \o SubSeq(sorted, pos + 1, Len(sorted))

RECURSIVE SortByKey(_, _)
SortByKey(ids, key) ==
    IF ids = <<>> THEN <<>>
    ELSE InsertByKey(SortByKey(SubSeq(ids, 1, Len(ids) - 1), key),
                     ids[Len(ids)], key)

\* blackstart_units, sorted by priority_order
BlackstartUnitOrder(comps) ==
    SortByKey(
        IdsWhere([i \in 1..Len(comps) |->
                    comps[i].blackstart_capable /\ comps[i].capacity > 0],
                 Len(comps)),
        [i \in 1..Len(comps) |-> priority_order(comps[i].type)])

\* variant: the second phase lists every generator, the blackstart units too
OtherGeneratorOrder_all(comps) ==
    SortByKey(
        IdsWhere([i \in 1..Len(comps) |-> comps[i].capacity > 0], Len(comps)),
        [i \in 1..Len(comps) |-> priority_order(comps[i].type)])

\* other_generators, sorted by priority_order
OtherGeneratorOrder(comps) ==
    SortByKey(
        IdsWhere([i \in 1..Len(comps) |->
                    (~comps[i].blackstart_capable) /\ comps[i].capacity > 0],
                 Len(comps)),
        [i \in 1..Len(comps) |-> priority_order(comps[i].type)])

\* loads, sorted by their priority
LoadOrder(comps) ==
    SortByKey(
        IdsWhere([i \in 1..Len(comps) |-> comps[i].capacity < 0], Len(comps)),
        [i \in 1..Len(comps) |-> comps[i].priority])

\* the time a step adds to step_time
StepDuration(comps, id) ==
    IF comps[id].capacity < 0 THEN 5
    ELSE IF comps[id].blackstart_capable
         THEN get_blackstart_time(comps[id].type)
         ELSE 15

RECURSIVE StepTime(_, _, _)
StepTime(comps, order, k) ==
    IF k = 0 THEN 0
    ELSE StepTime(comps, order, k - 1) + StepDuration(comps, order[k])

\* _generate_restoration_sequence
generate_restoration_sequence(comps) ==
    LET order == BlackstartUnitOrder(comps) \o OtherGeneratorOrder(comps)
                    \o LoadOrder(comps)
    IN  [k \in 1..Len(order) |->
            LET c == comps[order[k]] IN
            [step |-> k,
             component_id |-> order[k],
             component_type |-> c.type,
             action |-> IF c.capacity < 0 THEN "restore_load"
                        ELSE IF c.blackstart_capable
                             THEN "start_blackstart_unit"
                             ELSE "start_generator",
             capacity |-> Abs(c.capacity),
             time |-> StepTime(comps, order, k),
             phase |-> IF c.capacity < 0 THEN "load_restoration"
                       ELSE IF c.blackstart_capable
                            THEN "blackstart_units"
                            ELSE "generation_restoration"]]

RECURSIVE SumOver(_, _)
SumOver(f, n) == IF n = 0 THEN 0 ELSE SumOver(f, n - 1) + f[n]

\* total_blackstart_capacity and total_demand of assess_blackstart_capability
TotalBlackstartCapacity(comps) ==
    SumOver([i \in 1..Len(comps) |->
                IF comps[i].blackstart_capable THEN comps[i].capacity ELSE 0],
            Len(comps))

TotalDemand(comps) ==
    SumOver([i \in 1..Len(comps) |->
                IF comps[i].capacity < 0 THEN Abs(comps[i].capacity) ELSE 0],
            Len(comps))

\* blackstart_percentage >= minimum_blackstart_capability, where the
\* percentage is capacity / demand, or 0.0 without demand
MeetsStandard(capacity, demand) ==
    IF demand > 0
    THEN 100 * capacity >= minimum_blackstart_capability * demand
    ELSE 0 >= minimum_blackstart_capability

\* the status assess_blackstart_capability stores and returns
Assessment(comps) ==
    [assessed |-> TRUE,
     total_blackstart_capacity |-> TotalBlackstartCapacity(comps),
     total_demand |-> TotalDemand(comps),
     meets_european_standard |->
        MeetsStandard(TotalBlackstartCapacity(comps), TotalDemand(comps))]

\* variant: a load is picked up at once
LoadPickup_full(capacity) == Abs(capacity)

\* min(abs(capacity), abs(capacity) * load_pickup_increment_max)
LoadPickup(capacity) ==
    Min(Abs(capacity), (Abs(capacity) * load_pickup_increment_max) \div 100)

\* variant: the scenario completes one call late
RestorationComplete_late(phase, sequence) == phase > Len(sequence)

\* if self.current_restoration_phase >= len(self.restoration_sequence)
RestorationComplete(phase, sequence) == phase >= Len(sequence)

InitBS ==
    /\ standards_blackstart \in BOOLEAN
    /\ components \in ComponentMaps
    /\ blackstart_capability_status = NoStatus
    /\ blackstart_scenario_active = FALSE
    /\ restoration_sequence = <<>>
    /\ current_restoration_phase = 0
    /\ bs_ret = NoReturn

ParkedBS ==
    /\ standards_blackstart = FALSE
    /\ components = <<>>
    /\ blackstart_capability_status = NoStatus
    /\ blackstart_scenario_active = FALSE
    /\ restoration_sequence = <<>>
    /\ current_restoration_phase = 0
    /\ bs_ret = NoReturn

\* assess_blackstart_capability(): the status is stored and returned; the
\* read of standards.blackstart raises before anything is stored
assess_blackstart_capability ==
    /\ IF MissingCapacity(components)
       THEN /\ bs_ret' = Return("assess", "KeyError", <<>>)
            /\ UNCHANGED blackstart_capability_status
       ELSE IF standards_blackstart
       THEN /\ blackstart_capability_status' = Assessment(components)
            /\ bs_ret' = Return("assess", "status", <<>>)
       ELSE /\ bs_ret' = Return("assess", "AttributeError", <<>>)
            /\ UNCHANGED blackstart_capability_status
    /\ UNCHANGED <<standards_blackstart, components,
                   blackstart_scenario_active, restoration_sequence,
                   current_restoration_phase>>
    /\ UNCHANGED outsideBS

\* initiate_blackstart_scenario(): assesses when no status is stored, refuses
\* when the stored status does not meet the standard, otherwise blacks the
\* grid out and generates the sequence.  The flag and the cursor are written
\* before the sequence is generated, so they stay written when the
\* generation raises
initiate_blackstart_scenario ==
    /\ IF (~blackstart_capability_status.assessed)
          /\ (MissingCapacity(components) \/ ~standards_blackstart)
       THEN /\ bs_ret' = Return("initiate",
                                IF MissingCapacity(components)
                                THEN "KeyError" ELSE "AttributeError", <<>>)
            /\ UNCHANGED <<components, blackstart_capability_status,
                           blackstart_scenario_active, restoration_sequence,
                           current_restoration_phase>>
       ELSE LET status == IF blackstart_capability_status.assessed
                          THEN blackstart_capability_status
                          ELSE Assessment(components) IN
            /\ blackstart_capability_status' = status
            /\ IF ~status.meets_european_standard
               THEN /\ bs_ret' = Return("initiate", "False", <<>>)
                    /\ UNCHANGED <<components, blackstart_scenario_active,
                                   restoration_sequence,
                                   current_restoration_phase>>
               ELSE IF MissingCapacity(components)
               THEN /\ blackstart_scenario_active' = TRUE
                    /\ current_restoration_phase' = 0
                    /\ bs_ret' = Return("initiate", "KeyError", <<>>)
                    /\ UNCHANGED <<components, restoration_sequence>>
               ELSE /\ blackstart_scenario_active' = TRUE
                    /\ current_restoration_phase' = 0
                    /\ restoration_sequence' =
                          generate_restoration_sequence(components)
                    /\ components' =
                          [i \in 1..Len(components) |->
                              [components[i] EXCEPT !.is_active = FALSE,
                                                    !.current_output = 0]]
                    /\ bs_ret' = Return("initiate", "True", <<>>)
    /\ UNCHANGED standards_blackstart
    /\ UNCHANGED outsideBS

\* advance_restoration_sequence(): executes the step under the cursor
advance_restoration_sequence ==
    /\ IF (~blackstart_scenario_active)
          \/ current_restoration_phase >= Len(restoration_sequence)
       THEN /\ bs_ret' = Return("advance", "None", <<>>)
            /\ UNCHANGED <<components, blackstart_scenario_active,
                           current_restoration_phase>>
       ELSE LET current_step == restoration_sequence[current_restoration_phase + 1]
                id == current_step.component_id
                phase == current_restoration_phase + 1 IN
            IF current_step.action = "restore_load" /\ ~standards_blackstart
            THEN /\ components' = [components EXCEPT ![id].is_active = TRUE]
                 /\ bs_ret' = Return("advance", "AttributeError", <<>>)
                 /\ UNCHANGED <<blackstart_scenario_active,
                                current_restoration_phase>>
            ELSE /\ components' =
                       [components EXCEPT
                          ![id].is_active = TRUE,
                          ![id].current_output =
                               IF current_step.action = "restore_load"
                               THEN LoadPickup(components[id].capacity)
                               ELSE components[id].capacity \div 2]
                 /\ IF RestorationComplete(phase, restoration_sequence)
                    THEN /\ blackstart_scenario_active' = FALSE
                         /\ current_restoration_phase' = 0
                    ELSE /\ current_restoration_phase' = phase
                         /\ UNCHANGED blackstart_scenario_active
                 /\ bs_ret' = Return("advance", "step", <<current_step>>)
    /\ UNCHANGED <<standards_blackstart, blackstart_capability_status,
                   restoration_sequence>>
    /\ UNCHANGED outsideBS

\* a direct call of _generate_restoration_sequence(): the list is returned
call_generate_restoration_sequence ==
    /\ bs_ret' = IF MissingCapacity(components)
                 THEN Return("generate", "KeyError", <<>>)
                 ELSE Return("generate", "sequence",
                             generate_restoration_sequence(components))
    /\ UNCHANGED <<standards_blackstart, components,
                   blackstart_capability_status, blackstart_scenario_active,
                   restoration_sequence, current_restoration_phase>>
    /\ UNCHANGED outsideBS

NextBS ==
    \/ assess_blackstart_capability
    \/ initiate_blackstart_scenario
    \/ advance_restoration_sequence
    \/ call_generate_restoration_sequence

(***************************************************************************)
(* Properties of the blackstart scenario                                   *)
(***************************************************************************)
BlackstartState ==
    <<components, blackstart_capability_status, blackstart_scenario_active,
      restoration_sequence, current_restoration_phase>>

C5_CursorInRange ==
    blackstart_scenario_active =>
        current_restoration_phase < Len(restoration_sequence)

C5_Calls ==
    \* the active flag clears only on the advance call that moves the cursor
    \* to the sequence length, and the cursor is then reset
    /\ (blackstart_scenario_active /\ ~blackstart_scenario_active') =>
          /\ bs_ret'.op = "advance"
          /\ current_restoration_phase + 1 = Len(restoration_sequence)
          /\ current_restoration_phase' = 0
    \* an advance call that executes a step completes the scenario exactly
    \* when it moves the cursor to the sequence length
    /\ (bs_ret'.op = "advance" /\ bs_ret'.result = "step") =>
          IF current_restoration_phase + 1 = Len(restoration_sequence)
          THEN (~blackstart_scenario_active') /\ current_restoration_phase' = 0
          ELSE blackstart_scenario_active'
               /\ current_restoration_phase' = current_restoration_phase + 1
    \* an advance call on an inactive scenario returns None, changes nothing
    /\ (bs_ret'.op = "advance" /\ ~blackstart_scenario_active) =>
          /\ bs_ret'.result = "None"
          /\ UNCHANGED BlackstartState

BlackstartSteps(sequence) ==
    {k \in 1..Len(sequence) : sequence[k].phase = "blackstart_units"}

AscendingStartTime(sequence) ==
    \A j, k \in BlackstartSteps(sequence) :
        j < k => get_blackstart_time(sequence[j].component_type)
                    <= get_blackstart_time(sequence[k].component_type)

Loads == {i \in 1..Len(components) : components[i].capacity < 0}

C8_Values ==
    \* no call ends in an exception
    /\ bs_ret.result # "AttributeError"
    \* the stored flag is the comparison of the ratio with 10%
    /\ blackstart_capability_status.assessed =>
          (blackstart_capability_status.meets_european_standard <=>
              /\ blackstart_capability_status.total_demand > 0
              /\ 10 * blackstart_capability_status.total_blackstart_capacity
                    >= blackstart_capability_status.total_demand)
    \* an assess call returns a status
    /\ bs_ret.op = "assess" =>
          bs_ret.result = "status" /\ blackstart_capability_status.assessed

C8_Refusal ==
    (bs_ret'.op = "initiate"
        /\ ~blackstart_capability_status'.meets_european_standard) =>
          /\ bs_ret'.result = "False"
          /\ UNCHANGED <<components, blackstart_scenario_active,
                         restoration_sequence, current_restoration_phase>>

\* C8: insufficient blackstart capacity is reported as a value, never as an
\* exception: assess returns a status whose flag is true exactly when the
\* blackstart capacity is at least 10% of the demand, and initiate returns
\* False and leaves the scenario and the components unchanged when the flag
\* is false.
C8_RefusalIsAValue == [](C8_Values) /\ [][C8_Refusal]_vars

PhaseRank(phase) ==
    CASE phase = "blackstart_units" -> 1
      [] phase = "generation_restoration" -> 2
      [] phase = "load_restoration" -> 3
      [] OTHER -> 0

ThreeOrderedPhases(sequence) ==
    \* every step belongs to one of the three phases, in phase order
    /\ \A k \in 1..Len(sequence) : PhaseRank(sequence[k].phase) > 0
    /\ \A j, k \in 1..Len(sequence) :
          j < k => PhaseRank(sequence[j].phase) <= PhaseRank(sequence[k].phase)
    \* the step indices are 1..n in list order
    /\ \A k \in 1..Len(sequence) : sequence[k].step = k
    \* a component is the subject of at most one step
    /\ \A j, k \in 1..Len(sequence) :
          sequence[j].component_id = sequence[k].component_id => j = k

\* C21: every generated restoration sequence, the one a scenario stores and
\* the one a call returns, consists of three ordered phases: all
\* blackstart_units steps come before all generation_restoration steps,
\* which come before all load_restoration steps; the step indices are 1..n
\* in list order and each component appears in at most one step.
C21_ThreeOrderedPhases ==
    /\ ThreeOrderedPhases(restoration_sequence)
    /\ bs_ret.op = "generate" => ThreeOrderedPhases(bs_ret.value)

C21_Witness ==
    /\ bs_ret.op = "generate"
    /\ Len(bs_ret.value) = 3
    /\ bs_ret.value[1].phase = "blackstart_units"
    /\ bs_ret.value[2].phase = "generation_restoration"
    /\ bs_ret.value[3].phase = "load_restoration"

(***************************************************************************)
(* european_grid_standards.py / european_grid_game.py: FCR activation      *)
(*                                                                         *)
(* Deviations are in mHz.  An activation is the numerator of a fraction    *)
(* over FcrRange, the width of the proportional band: FcrRange is 1.0.     *)
(***************************************************************************)
\* FrequencyStandards.fcr_deadband and
\* FrequencyStandards.fcr_full_activation_frequency_deviation, in mHz
fcr_deadband == 10
fcr_full_activation_frequency_deviation == 200

FcrRange == fcr_full_activation_frequency_deviation - fcr_deadband

Deviations == (-MaxDev)..MaxDev

\* variant: the sign of the deviation is lost in the proportional band
calculate_fcr_activation_unsigned(deviation) ==
    LET abs_dev == Abs(deviation) IN
    IF abs_dev <= fcr_deadband THEN 0
    ELSE IF abs_dev >= fcr_full_activation_frequency_deviation
         THEN (IF deviation > 0 THEN FcrRange ELSE -FcrRange)
         ELSE abs_dev - fcr_deadband

\* calculate_fcr_activation(deviation)
calculate_fcr_activation(deviation) ==
    LET abs_dev == Abs(deviation) IN
    IF abs_dev <= fcr_deadband THEN 0
    ELSE IF abs_dev >= fcr_full_activation_frequency_deviation
         THEN (IF deviation > 0 THEN FcrRange ELSE -FcrRange)
         ELSE (IF deviation > 0
               THEN abs_dev - fcr_deadband
               ELSE -(abs_dev - fcr_deadband))

\* if abs(activation) > 0.1
SignificantActivation(activation) == 10 * Abs(activation) > FcrRange

InitFCR ==
    /\ fcr_available \in {0, 80}
    /\ fcr_input = 0
    /\ fcr_activation = 0
    /\ fcr_response = 0
    /\ fcr_activations = 0

ParkedFCR ==
    /\ fcr_available = 0
    /\ fcr_input = 0
    /\ fcr_activation = 0
    /\ fcr_response = 0
    /\ fcr_activations = 0

\* activate_fcr(deviation)
activate_fcr(deviation) ==
    LET activation == calculate_fcr_activation(deviation) IN
    /\ SignificantActivation(activation) => fcr_activations < MaxFcrActivations
    /\ fcr_input' = deviation
    /\ fcr_activation' = activation
    /\ fcr_response' = activation * fcr_available
    /\ fcr_activations' = IF SignificantActivation(activation)
                          THEN fcr_activations + 1
                          ELSE fcr_activations
    /\ UNCHANGED fcr_available
    /\ UNCHANGED outsideFCR

NextFCR == \E deviation \in Deviations : activate_fcr(deviation)

(***************************************************************************)
(* Properties of the FCR activation                                        *)
(***************************************************************************)
C10_Shape ==
    \* odd symmetry
    /\ calculate_fcr_activation(-fcr_input) = -fcr_activation
    \* zero inside the deadband
    /\ Abs(fcr_input) <= fcr_deadband => fcr_activation = 0
    \* full activation, with the sign of the deviation
    /\ fcr_input >= fcr_full_activation_frequency_deviation =>
          fcr_activation = FcrRange
    /\ fcr_input <= -fcr_full_activation_frequency_deviation =>
          fcr_activation = -FcrRange
    \* never outside [-1, 1]
    /\ -FcrRange <= fcr_activation /\ fcr_activation <= FcrRange

C10_Increasing ==
    (/\ fcr_deadband <= Abs(fcr_input)
     /\ Abs(fcr_input) < Abs(fcr_input')
     /\ Abs(fcr_input') <= fcr_full_activation_frequency_deviation) =>
        Abs(fcr_activation) < Abs(fcr_activation')

\* C10: calculate_fcr_activation is odd-symmetric, zero for deviations of at
\* most 10 mHz, exactly +1 or -1 with the sign of the deviation from 200 mHz
\* on, strictly increasing in the size of the deviation in between, and
\* never outside [-1, 1].
C10_ActivationCurve == [](C10_Shape) /\ [][C10_Increasing]_vars

\* a negative deviation in the middle of the proportional band was activated
C10_Witness ==
    /\ fcr_input = -105
    /\ 2 * fcr_activation = -FcrRange

(***************************************************************************)
(* european_grid_standards.py / european_grid_game.py: the stepped game    *)
(*                                                                         *)
(* The frequency deviation of the game is kept in uHz; the thresholds of   *)
(* the standards are in mHz.  A division that is not exact is rounded to   *)
(* the nearest uHz.                                                        *)
(***************************************************************************)
\* FrequencyStandards.standard_frequency_range and
\* FrequencyStandards.max_steady_state_frequency_deviation, in mHz
standard_frequency_range == 50
max_steady_state_frequency_deviation == 200

\* FrequencyStandards.max_instantaneous_frequency_deviation, in mHz, and
\* ReserveStandards.reference_incident, in MW
max_instantaneous_frequency_deviation == 800
reference_incident == 3000

\* variant: the boundary of the normal band taken exclusively
get_system_state_exclusive(deviation) ==
    LET abs_dev == Abs(deviation) IN
    IF abs_dev < standard_frequency_range * 1000 THEN "normal"
    ELSE IF abs_dev <= max_steady_state_frequency_deviation * 1000 THEN "alert"
    ELSE "emergency"

\* get_system_state(frequency_deviation), the deviation in uHz
get_system_state(deviation) ==
    LET abs_dev == Abs(deviation) IN
    IF abs_dev <= standard_frequency_range * 1000 THEN "normal"
    ELSE IF abs_dev <= max_steady_state_frequency_deviation * 1000 THEN "alert"
    ELSE "emergency"

\* self.component_types: capacity, fcr and frr (MW) and cost of a type
ConfigCapacity(type) ==
    CASE type = "nuclear_plant" -> 1400
      [] type = "coal_plant" -> 800
      [] type = "gas_plant" -> 400
      [] type = "hydro_plant" -> 300
      [] type = "wind_farm" -> 200
      [] type = "solar_farm" -> 100
      [] type = "substation_400" -> 2000
      [] type = "substation_220" -> 1000
      [] type = "load_center" -> -300

ConfigFcr(type) ==
    CASE type = "nuclear_plant" -> 50
      [] type = "coal_plant" -> 40
      [] type = "gas_plant" -> 30
      [] type = "hydro_plant" -> 50
      [] OTHER -> 0

ConfigFrr(type) ==
    CASE type = "nuclear_plant" -> 200
      [] type = "coal_plant" -> 150
      [] type = "gas_plant" -> 100
      [] type = "hydro_plant" -> 200
      [] type = "wind_farm" -> 30
      [] type = "solar_farm" -> 20
      [] OTHER -> 0

ConfigCost(type) ==
    CASE type = "nuclear_plant" -> 80000
      [] type = "coal_plant" -> 40000
      [] type = "gas_plant" -> 25000
      [] type = "hydro_plant" -> 35000
      [] type = "wind_farm" -> 20000
      [] type = "solar_farm" -> 15000
      [] type = "substation_400" -> 15000
      [] type = "substation_220" -> 8000
      [] type = "load_center" -> 0

\* the component add_component stores
AddedComponent(type) ==
    [type |-> type, status |-> "online",
     output |-> IF ConfigCapacity(type) > 0 THEN ConfigCapacity(type) ELSE 0,
     load |-> IF ConfigCapacity(type) < 0 THEN Abs(ConfigCapacity(type)) ELSE 0]

GridTypes == {"nuclear_plant", "hydro_plant", "load_center"}

Grids ==
    UNION {[1..n -> {AddedComponent(type) : type \in GridTypes}] :
              n \in 0..NumGridComponents}

OnlineGenerator(comp) ==
    comp.status = "online" /\ ConfigCapacity(comp.type) > 0

\* _update_grid_parameters: generation_capacity, fcr_available,
\* frr_available and load_demand of a component map
GridGenerationCapacity(g) ==
    SumOver([i \in 1..Len(g) |->
                IF OnlineGenerator(g[i]) THEN g[i].output ELSE 0], Len(g))

GridFcr(g) ==
    SumOver([i \in 1..Len(g) |->
                IF OnlineGenerator(g[i]) THEN ConfigFcr(g[i].type) ELSE 0], Len(g))

GridFrr(g) ==
    SumOver([i \in 1..Len(g) |->
                IF OnlineGenerator(g[i]) THEN ConfigFrr(g[i].type) ELSE 0], Len(g))

GridLoad(g) ==
    SumOver([i \in 1..Len(g) |->
                IF g[i].status = "online" /\ ConfigCapacity(g[i].type) <= 0
                THEN g[i].load ELSE 0], Len(g))

\* self.load_demand = max(total_load, 1000)
GridLoadDemand(g) == Max(GridLoad(g), 1000)

\* self.grid_events: type and magnitude (MW), in list order
grid_events ==
    <<[type |-> "generator_trip", magnitude |-> 1400],
      [type |-> "generator_trip", magnitude |-> 800],
      [type |-> "line_outage", magnitude |-> 1000],
      [type |-> "load_increase", magnitude |-> 500],
      [type |-> "generator_trip", magnitude |-> 600],
      [type |-> "line_outage", magnitude |-> 2000]>>

\* rounded quotient of a signed numerator
RoundDiv(n, d) ==
    IF n >= 0 THEN (2 * n + d) \div (2 * d) ELSE -((2 * (-n) + d) \div (2 * d))

\* min(generators, key=|capacity - magnitude|): the first best match
BestMatch(g, magnitude) ==
    LET gens == {i \in 1..Len(g) : OnlineGenerator(g[i])}
        dist(i) == Abs(ConfigCapacity(g[i].type) - magnitude)
    IN  CHOOSE i \in gens :
            \A j \in gens : dist(i) < dist(j) \/ (dist(i) = dist(j) /\ i <= j)

\* _execute_event: the grid, the load demand and the deviation after the
\* event, before _update_grid_parameters
EventGrid(g, event) ==
    IF event.type = "generator_trip"
          /\ {i \in 1..Len(g) : OnlineGenerator(g[i])} # {}
    THEN [g EXCEPT ![BestMatch(g, event.magnitude)].status = "offline"]
    ELSE g

EventDeviation(g, deviation, event) ==
    IF event.type = "generator_trip"
          /\ {i \in 1..Len(g) : OnlineGenerator(g[i])} # {}
    THEN deviation - event.magnitude * 50
    ELSE IF event.type = "load_increase"
         THEN deviation - RoundDiv(event.magnitude * 1000000, 30000)
         ELSE deviation

\* the FCR activation of a deviation in uHz, as a numerator over
\* FcrRange * 1000
FcrActivationMicro(deviation) ==
    LET abs_dev == Abs(deviation) IN
    IF abs_dev <= fcr_deadband * 1000 THEN 0
    ELSE IF abs_dev >= fcr_full_activation_frequency_deviation * 1000
         THEN (IF deviation > 0 THEN FcrRange * 1000 ELSE -(FcrRange * 1000))
         ELSE (IF deviation > 0
               THEN abs_dev - fcr_deadband * 1000
               ELSE -(abs_dev - fcr_deadband * 1000))

\* variant: no 80% cap on the activated FRR
FrrActivated_uncapped(deviation, available) == Abs(deviation)

\* frr_activated = min(abs(deviation) * 10000, frr_available * 0.8), in
\* hundredths of a MW for a deviation in uHz
FrrActivated(deviation, available) == Min(Abs(deviation), available * 80)

\* activate_frr(frequency_deviation): the value returned, in hundredths of
\* a MW
FrrResponse(deviation, available) ==
    IF Abs(deviation) > standard_frequency_range * 1000
    THEN (IF deviation < 0 THEN FrrActivated(deviation, available)
          ELSE -FrrActivated(deviation, available))
    ELSE 0

\* if frr_activated > 50
SignificantFrr(deviation, available) ==
    /\ Abs(deviation) > standard_frequency_range * 1000
    /\ FrrActivated(deviation, available) > 5000

NoStats ==
    [frequency_violations |-> 0, n_minus_1_failures |-> 0,
     frr_activations |-> 0, reliability_score |-> 1000,
     compliance_score |-> 6, efficiency_score |-> 0]

NoTrace ==
    [before_fcr |-> 0, after_fcr |-> 0, frr_applied |-> FALSE, after_frr |-> 0]

NoCall == [op |-> "none", arg |-> 0, state |-> "none", value |-> 0]

\* the game after the components of g have been added
GameWith(g) ==
    /\ grid = g
    /\ time_elapsed = 0
    /\ frequency_deviation = 0
    /\ system_state = "normal"
    /\ load_demand = IF g = <<>> THEN 2000 ELSE GridLoadDemand(g)
    /\ generation_capacity = GridGenerationCapacity(g)
    /\ frr_available = GridFrr(g)
    /\ stats = NoStats
    /\ n_minus_1_secure = TRUE
    /\ events_executed = 0
    /\ frequency_trace = NoTrace

InitGame == \E g \in Grids : GameWith(g)

ParkedGame == GameWith(<<>>)

ParkedStd == std_ret = NoCall

\* (generation - max_gen) >= self.load_demand * 1.1
NMinus1Secure(g, demand) ==
    LET gens == {i \in 1..Len(g) : OnlineGenerator(g[i])}
        max_gen == IF gens = {} THEN 0
                   ELSE CHOOSE c \in {ConfigCapacity(g[i].type) : i \in gens} :
                          \A i \in gens : ConfigCapacity(g[i].type) <= c
    IN  10 * (GridGenerationCapacity(g) - max_gen) >= 11 * demand

\* self.stats.efficiency_score = self._calculate_efficiency()
Efficiency(g) ==
    LET total_cost == SumOver([i \in 1..Len(g) |-> ConfigCost(g[i].type)], Len(g))
    IN  IF total_cost = 0 THEN 0 ELSE 100

\* number of criteria check_so_gl_compliance finds met, out of 6
Compliance(deviation, fcr, secure) ==
    (IF Abs(deviation) <= standard_frequency_range * 1000 THEN 1 ELSE 0)
    + (IF Abs(deviation) <= max_steady_state_frequency_deviation * 1000 THEN 1 ELSE 0)
    + (IF Abs(deviation) <= max_instantaneous_frequency_deviation * 1000 THEN 1 ELSE 0)
    + 1
    + (IF fcr >= reference_incident THEN 1 ELSE 0)
    + (IF secure THEN 1 ELSE 0)

\* update_frequency(dt) on the grid g: the deviation after the natural
\* response, after the FCR correction and after the FRR correction, which is
\* due when time_elapsed % 30 < dt
FrequencyUpdate(g, demand, fcr, frr, deviation, now, dt) ==
    LET before_fcr == deviation + (GridGenerationCapacity(g) - demand) * 20 * dt
        after_fcr == before_fcr
                        - RoundDiv(FcrActivationMicro(before_fcr) * fcr * dt, 9500)
        frr_applied == (now % 30) < dt
    IN  [before_fcr |-> before_fcr,
         after_fcr |-> after_fcr,
         frr_applied |-> frr_applied,
         after_frr |-> IF frr_applied
                       THEN after_fcr - RoundDiv(FrrResponse(after_fcr, frr) * dt, 5)
                       ELSE after_fcr]

\* step(dt) with dt = 1.0: the clock, at most one grid event (e = 0: none),
\* the frequency update with its FCR and FRR corrections, the statistics
step(e) ==
    /\ time_elapsed < MaxTime
    /\ e > 0 => events_executed < MaxEvents
    /\ \E g \in {IF e > 0 THEN EventGrid(grid, grid_events[e]) ELSE grid} :
       \E demand \in {IF e > 0 THEN GridLoadDemand(g) ELSE load_demand} :
       \E fcr \in {IF e > 0 THEN GridFcr(g) ELSE fcr_available} :
       \E frr \in {IF e > 0 THEN GridFrr(g) ELSE frr_available} :
       \E trace \in {FrequencyUpdate(g, demand, fcr, frr,
                        IF e > 0
                        THEN EventDeviation(grid, frequency_deviation, grid_events[e])
                        ELSE frequency_deviation,
                        time_elapsed + 1, 1)} :
       \E secure \in {NMinus1Secure(g, demand)} :
       LET violation == Abs(trace.after_frr) > standard_frequency_range * 1000 IN
       /\ time_elapsed' = time_elapsed + 1
       /\ grid' = g
       /\ load_demand' = demand
       /\ generation_capacity' =
             IF e > 0 THEN GridGenerationCapacity(g) ELSE generation_capacity
       /\ fcr_available' = fcr
       /\ frr_available' = frr
       /\ frequency_deviation' = trace.after_frr
       /\ system_state' = get_system_state(trace.after_frr)
       /\ fcr_activations' =
             IF 10 * Abs(FcrActivationMicro(trace.before_fcr)) > FcrRange * 1000
             THEN fcr_activations + 1 ELSE fcr_activations
       /\ stats' =
             [frequency_violations |->
                 stats.frequency_violations + (IF violation THEN 1 ELSE 0),
              n_minus_1_failures |->
                 stats.n_minus_1_failures + (IF secure THEN 0 ELSE 1),
              frr_activations |->
                 stats.frr_activations
                    + (IF trace.frr_applied /\ SignificantFrr(trace.after_fcr, frr)
                       THEN 1 ELSE 0),
              reliability_score |->
                 IF violation THEN Max(0, stats.reliability_score - 1)
                 ELSE stats.reliability_score,
              compliance_score |-> Compliance(trace.after_frr, fcr, secure),
              efficiency_score |-> Efficiency(g)]
       /\ n_minus_1_secure' = secure
       /\ events_executed' = IF e > 0 THEN events_executed + 1 ELSE events_executed
       /\ frequency_trace' = trace
    /\ UNCHANGED <<fcr_input, fcr_activation, fcr_response>>
    /\ UNCHANGED <<n1vars, simvars, bsvars, stdvars, pfvars,
      avrvars, pgvars>>

NextGame == \E e \in 0..Len(grid_events) : step(e)

(***************************************************************************)
(* Properties of the stepped game                                          *)
(***************************************************************************)
C28_Raised ==
    \A e \in 1..Len(grid_events) :
        (grid_events[e].type = "load_increase" /\ step(e))
        => load_demand' = load_demand + grid_events[e].magnitude

\* C28: a step that executes a load_increase event leaves load_demand at its
\* value before the event plus the event's magnitude, and that is the
\* demand the frequency update of the step works with.
C28_LoadIncreaseKept == [][C28_Raised]_vars

\* C12: after any simulation step in which check_n_minus_1_security is
\* false, system_state is not 'normal'.
C12_AlertWithoutNMinus1 ==
    (time_elapsed > 0 /\ ~n_minus_1_secure) => system_state # "normal"

\* C20: in a frequency integration step the FCR correction, and where it is
\* applied the FRR correction, move the deviation towards zero and never
\* further from it.
C20_ReservesReduceDeviation ==
    time_elapsed > 0 =>
        /\ Abs(frequency_trace.after_fcr) <= Abs(frequency_trace.before_fcr)
        /\ frequency_trace.frr_applied =>
              Abs(frequency_trace.after_frr) <= Abs(frequency_trace.after_fcr)

(***************************************************************************)
(* Direct calls of get_system_state and activate_frr                       *)
(***************************************************************************)
\* deviations, in mHz, on and next to every multiple of 50 mHz
StateProbes ==
    {d \in (-MaxProbe)..MaxProbe : (Abs(d) % 50) \in {0, 1, 49}}

FrrProbes == (-MaxFrrProbe)..MaxFrrProbe

\* games with no, one and five hydro plants
ProbedGrids ==
    {[i \in 1..n |-> AddedComponent("hydro_plant")] : n \in {0, 1, 5}}

InitStd ==
    /\ \E g \in ProbedGrids : GameWith(g)
    /\ std_ret = NoCall

\* standards.get_system_state(deviation)
call_get_system_state(deviation) ==
    /\ std_ret' = [op |-> "get_system_state", arg |-> deviation,
                   state |-> get_system_state(deviation * 1000), value |-> 0]
    /\ UNCHANGED <<n1vars, simvars, bsvars, fcrvars, gamevars, pfvars,
      avrvars, pgvars>>

\* activate_frr(deviation)
activate_frr(deviation) ==
    /\ SignificantFrr(deviation * 1000, frr_available) =>
          stats.frr_activations < MaxFrrActivations
    /\ std_ret' = [op |-> "activate_frr", arg |-> deviation, state |-> "none",
                   value |-> FrrResponse(deviation * 1000, frr_available)]
    /\ stats' = [stats EXCEPT !.frr_activations =
                    IF SignificantFrr(deviation * 1000, frr_available)
                    THEN @ + 1 ELSE @]
    /\ UNCHANGED <<grid, time_elapsed, frequency_deviation, system_state,
                   load_demand, generation_capacity, frr_available,
                   n_minus_1_secure, events_executed, frequency_trace>>
    /\ UNCHANGED <<n1vars, simvars, bsvars, fcrvars, pfvars,
      avrvars, pgvars>>

NextStd ==
    \/ \E deviation \in StateProbes : call_get_system_state(deviation)
    \/ \E deviation \in FrrProbes : activate_frr(deviation)

(***************************************************************************)
(* Properties of the direct calls                                          *)
(***************************************************************************)
\* C11: a deviation is classified normal when its size is at most 50 mHz,
\* alert when it is above 50 mHz and at most 200 mHz, and emergency
\* otherwise, whatever its sign: 49 and 50 mHz are normal, 150 mHz is alert,
\* 801 mHz is emergency.
C11_Classification ==
    std_ret.op = "get_system_state" =>
        /\ std_ret.state =
              (IF Abs(std_ret.arg) <= 50 THEN "normal"
               ELSE IF Abs(std_ret.arg) <= 200 THEN "alert"
               ELSE "emergency")
        /\ Abs(std_ret.arg) \in {49, 50} => std_ret.state = "normal"
        /\ Abs(std_ret.arg) = 150 => std_ret.state = "alert"
        /\ Abs(std_ret.arg) = 801 => std_ret.state = "emergency"

\* the lower boundary of the band was classified
C11_Witness ==
    /\ std_ret.op = "get_system_state"
    /\ std_ret.arg = -50
    /\ std_ret.state = "normal"

C13_Value ==
    std_ret.op = "activate_frr" =>
        \* zero inside the standard band
        /\ Abs(std_ret.arg) <= 50 => std_ret.value = 0
        \* at most 80% of the available FRR (value in hundredths of a MW)
        /\ Abs(std_ret.value) <= 80 * frr_available

C13_Growth ==
    (/\ std_ret.op = "activate_frr"
     /\ std_ret'.op = "activate_frr"
     /\ Abs(std_ret.arg) > 50
     /\ Abs(std_ret.arg) < Abs(std_ret'.arg)) =>
        /\ Abs(std_ret.value) <= Abs(std_ret'.value)
        /\ Abs(std_ret'.value) < 80 * frr_available =>
              Abs(std_ret.value) < Abs(std_ret'.value)

\* C13: activate_frr returns 0 for deviations of at most 50 mHz; beyond, the
\* size of the returned activation grows with the size of the deviation,
\* strictly until the cap is reached, and never exceeds 80% of the available
\* FRR.
C13_FrrActivation == [](C13_Value) /\ [][C13_Growth]_vars

\* an activation below the cap was returned for a deviation of 60 mHz
C13_Witness ==
    /\ std_ret.op = "activate_frr"
    /\ std_ret.arg = 60
    /\ std_ret.value = -60000
    /\ frr_available = 1000

(***************************************************************************)
(* The power-flow engine: add_bus, add_branch, solve_power_flow and the    *)
(* sequential contingency runner on one UnifiedGridEngine.                 *)
(* Voltages are complex numbers in 1e-2 pu, injections in MW and MVAr,     *)
(* branches are lossless series reactances (resistance 0, susceptance 0)   *)
(* whose admittance 1/reactance is a whole number of pu, mismatches are in *)
(* 1e-6 pu, loadings in percent.  use_fortran is False: the Python solvers *)
(* run.                                                                    *)
(***************************************************************************)
\* self.max_iterations = 20
max_iterations == 20
\* self.tolerance = 1e-6 pu, in 1e-6 pu
tolerance == 1
\* base_mva: float = 100.0
base_mva == 100

\* the two buses of the network
BusIds == {1, 2}
BranchIds == 1..MaxBranchId

\* the buses a caller adds: bus 1 is the slack bus, a 1000 MW unit feeding
\* 200 MVAr; bus 2 is a load bus drawing 50 MW at a flat start, or 180 MVAr
\* at 0.9 pu
BusKinds(id) ==
    IF id = 1 THEN {"slack"} ELSE {"active_load", "reactive_load"}

GridBus(id, kind) ==
    [id |-> id,
     is_slack |-> kind = "slack",
     voltage_level |-> 400,
     voltage |-> [re |-> IF kind = "reactive_load" THEN 90 ELSE 100,
                  im |-> 0],
     gen_p |-> 0,
     gen_q |-> IF kind = "slack" THEN 200 ELSE 0,
     gen_p_max |-> IF kind = "slack" THEN 1000 ELSE 0,
     load_p |-> IF kind = "active_load" THEN 50 ELSE 0,
     load_q |-> IF kind = "reactive_load" THEN 180 ELSE 0]

\* the branches a caller adds: the circuits of a line from bus 1 to bus 2,
\* reactance 0.05 pu each; circuit 1 is rated 100 MVA, the others leave
\* their rating to the engine
GridBranch(id) ==
    [id |-> id,
     from_bus |-> 1,
     to_bus |-> 2,
     admittance |-> 20,
     rating_a |-> IF id = 1 THEN 100 ELSE 0,
     is_online |-> TRUE,
     is_breaker_open |-> FALSE,
     loading_percent |-> 0]

estimate_thermal_limit(voltage_kv) ==
    IF voltage_kv >= 400 THEN 3000
    ELSE IF voltage_kv >= 220 THEN 1000
    ELSE IF voltage_kv >= 110 THEN 300
    ELSE 100

StoredBusIds(eng) == {eng.buses[i].id : i \in 1..Len(eng.buses)}
StoredBranchIds(eng) == {eng.branches[i].id : i \in 1..Len(eng.branches)}
BusAt(eng, id) == CHOOSE i \in 1..Len(eng.buses) : eng.buses[i].id = id
BranchAt(eng, id) == CHOOSE i \in 1..Len(eng.branches) : eng.branches[i].id = id

\* UnifiedGridEngine(): no buses, no branches, no matrix
NewEngine ==
    [buses |-> <<>>, branches |-> <<>>, y_matrix |-> <<>>,
     bus_index_map |-> <<>>, matrices_valid |-> FALSE,
     current_state |-> [total_load |-> 0, total_generation |-> 0,
                        voltage_violations |-> 0, thermal_violations |-> 0,
                        compliance_score |-> 100]]

(***************************************************************************)
(* build_system_matrices and _build_dense_admittance_matrix                *)
(***************************************************************************)
\* self._bus_index_map: the position of every bus id in the bus map
BusIndexMap(bs) ==
    [id \in {bs[i].id : i \in 1..Len(bs)} |->
        CHOOSE i \in 1..Len(bs) : bs[i].id = id]

\* what one branch adds to the imaginary part of entry (i, j): a branch that
\* is offline or whose breaker is open adds nothing
BranchStamp(br, idx, i, j) ==
    IF (~br.is_online) \/ br.is_breaker_open THEN 0
    ELSE LET f == idx[br.from_bus]
             t == idx[br.to_bus] IN
           (IF i = f /\ j = t THEN br.admittance ELSE 0)
         + (IF i = t /\ j = f THEN br.admittance ELSE 0)
         + (IF i = f /\ j = f THEN -br.admittance ELSE 0)
         + (IF i = t /\ j = t THEN -br.admittance ELSE 0)

RECURSIVE StampSum(_, _, _, _, _)
StampSum(brs, idx, i, j, k) ==
    IF k = 0 THEN 0
    ELSE StampSum(brs, idx, i, j, k - 1) + BranchStamp(brs[k], idx, i, j)

\* the admittance matrix of the buses bs and the branches brs: entry (i, j)
\* is j times the number stored here
DenseAdmittanceMatrix(bs, brs) ==
    [i \in 1..Len(bs) |->
        [j \in 1..Len(bs) |-> StampSum(brs, BusIndexMap(bs), i, j, Len(brs))]]

build_system_matrices(eng) ==
    IF eng.matrices_valid \/ Len(eng.buses) = 0 THEN eng
    ELSE [eng EXCEPT !.bus_index_map = BusIndexMap(eng.buses),
                     !.y_matrix = DenseAdmittanceMatrix(eng.buses, eng.branches),
                     !.matrices_valid = TRUE]

\* the cached matrix and index map are the ones a rebuild would give
CacheIsFresh(eng) ==
    /\ eng.y_matrix = DenseAdmittanceMatrix(eng.buses, eng.branches)
    /\ eng.bus_index_map = BusIndexMap(eng.buses)

(***************************************************************************)
(* _solve_newton_raphson_python and _build_jacobian                        *)
(***************************************************************************)
\* p_sched and q_sched of a bus, in 1e-2 pu
Scheduled(bus) ==
    [p |-> ((bus.gen_p - bus.load_p) * 100) \div base_mva,
     q |-> ((bus.gen_q - bus.load_q) * 100) \div base_mva]

RECURSIVE RowTimesVoltage(_, _, _, _)
RowTimesVoltage(row, bs, part, k) ==
    IF k = 0 THEN 0
    ELSE RowTimesVoltage(row, bs, part, k - 1)
            + row[k] * (IF part = "re" THEN bs[k].voltage.re ELSE bs[k].voltage.im)

\* s_calc = voltage * conj(Y @ voltage) of bus i, in 1e-4 pu
Calculated(y, bs, i) ==
    LET c == RowTimesVoltage(y[i], bs, "re", Len(bs))
        d == RowTimesVoltage(y[i], bs, "im", Len(bs))
        a == bs[i].voltage.re
        b == bs[i].voltage.im
    IN  [p |-> b * c - a * d, q |-> -(a * c + b * d)]

\* max(max |delta_p|, max |delta_q|), in 1e-6 pu
RECURSIVE MaxMismatch(_, _, _)
MaxMismatch(y, bs, k) ==
    IF k = 0 THEN 0
    ELSE LET sched == Scheduled(bs[k])
             calc == Calculated(y, bs, k)
         IN  Max(MaxMismatch(y, bs, k - 1),
                 Max(Abs(sched.p * 10000 - calc.p * 100),
                     Abs(sched.q * 10000 - calc.q * 100)))

\* the 2n x 2n Jacobian: the loops fill rows 1..n (columns j and, on the
\* diagonal, j+n) and leave rows n+1..2n at zero
build_jacobian(y, bs) ==
    LET n == Len(bs) IN
    [i \in 1..(2 * n) |-> [j \in 1..(2 * n) |->
        IF i > n THEN 0
        ELSE IF j = i THEN bs[i].voltage.re * y[i][i]
        ELSE IF j = i + n THEN bs[i].voltage.im * y[i][i]
        ELSE IF j > n THEN 0
        ELSE -y[i][j] * (bs[i].voltage.re * bs[j].voltage.re
                           + bs[i].voltage.im * bs[j].voltage.im)]]

\* a matrix with a row of zeros is singular: np.linalg.solve raises
\* LinAlgError on it
HasZeroRow(m) == \E i \in 1..Len(m) : \A j \in 1..Len(m) : m[i][j] = 0

\* the solver: the mismatch test of the first iteration, then the Jacobian.
\* The voltage update of a Jacobian without a zero row is not modelled:
\* build_jacobian gives no such matrix.
solve_newton_raphson_python(eng) ==
    IF MaxMismatch(eng.y_matrix, eng.buses, Len(eng.buses)) < tolerance
    THEN [converged |-> TRUE, iterations |-> 1, path |-> "converged",
          buses |-> eng.buses]
    ELSE IF HasZeroRow(build_jacobian(eng.y_matrix, eng.buses))
    THEN [converged |-> FALSE, iterations |-> 1, path |-> "singular",
          buses |-> eng.buses]
    ELSE [converged |-> FALSE, iterations |-> max_iterations,
          path |-> "iteration_cap", buses |-> eng.buses]

(***************************************************************************)
(* _solve_gauss_seidel                                                     *)
(***************************************************************************)
\* the largest r in lo..hi with r * r <= n
RECURSIVE RootBetween(_, _, _)
RootBetween(n, lo, hi) ==
    IF lo >= hi THEN lo
    ELSE LET mid == (lo + hi + 1) \div 2 IN
         IF mid * mid <= n THEN RootBetween(n, mid, hi)
         ELSE RootBetween(n, lo, mid - 1)

\* the size of a complex number, rounded down
Magnitude(re, im) ==
    IF im = 0 THEN Abs(re)
    ELSE IF re = 0 THEN Abs(im)
    ELSE RootBetween(re * re + im * im, 0, Abs(re) + Abs(im))

\* variant: half as many sweeps again
GaussSeidelSweeps_more == 3 * max_iterations

\* range(self.max_iterations * 2)
GaussSeidelSweeps == 2 * max_iterations

\* new_voltage = s_net / conj(old_voltage), in 1e-2 pu
NewVoltage(bus) ==
    LET s == Scheduled(bus)
        a == bus.voltage.re
        b == bus.voltage.im
        m == a * a + b * b
    IN  [re |-> RoundDiv((s.p * a - s.q * b) * 100, m),
         im |-> RoundDiv((s.p * b + s.q * a) * 100, m)]

\* abs(new_voltage - old_voltage) < tolerance
WithinTolerance(new, old) ==
    Magnitude(new.re - old.re, new.im - old.im) * 10000 < tolerance

\* one sweep: every bus but the slack bus takes its new voltage
Sweep(bs) ==
    [i \in 1..Len(bs) |->
        IF bs[i].is_slack THEN bs[i]
        ELSE [bs[i] EXCEPT !.voltage = NewVoltage(bs[i])]]

SweepSettled(bs) ==
    \A i \in 1..Len(bs) :
        bs[i].is_slack \/ WithinTolerance(NewVoltage(bs[i]), bs[i].voltage)

RECURSIVE solve_gauss_seidel(_, _)
solve_gauss_seidel(bs, iteration) ==
    IF iteration > GaussSeidelSweeps
    THEN [converged |-> FALSE, iterations |-> iteration - 1,
          path |-> "iteration_cap", buses |-> bs]
    ELSE IF SweepSettled(bs)
    THEN [converged |-> TRUE, iterations |-> iteration, path |-> "converged",
          buses |-> Sweep(bs)]
    ELSE solve_gauss_seidel(Sweep(bs), iteration + 1)

(***************************************************************************)
(* _calculate_branch_flows                                                 *)
(***************************************************************************)
\* abs(s_from) * base_mva / rating_a * 100 of a branch in service
Loading(eng, br) ==
    LET vf == eng.buses[BusAt(eng, br.from_bus)].voltage
        vt == eng.buses[BusAt(eng, br.to_bus)].voltage
        e == vf.re - vt.re
        f == vf.im - vt.im
        s == Magnitude(vf.re * f - vf.im * e, vf.re * e + vf.im * f)
                * br.admittance
    IN  (s * base_mva * 100) \div (10000 * br.rating_a)

\* branches that are offline or open keep the loading they had
branch_flows(eng) ==
    [eng EXCEPT !.branches =
        [k \in 1..Len(eng.branches) |->
            LET br == eng.branches[k] IN
            IF (~br.is_online) \/ br.is_breaker_open \/ br.rating_a <= 0 THEN br
            ELSE [br EXCEPT !.loading_percent = Loading(eng, br)]]]

(***************************************************************************)
(* _update_system_state                                                    *)
(***************************************************************************)
\* the totals, the violation counts and the compliance score of the stored
\* buses and branches; the branches have no resistance, so total_losses
\* stays 0 and is left out, as is the timestamp
update_system_state(eng) ==
    LET voltage_violations ==
            Cardinality({k \in 1..Len(eng.buses) :
                BusViolation(Magnitude(eng.buses[k].voltage.re,
                                       eng.buses[k].voltage.im) * 100) > 0})
        thermal_violations ==
            Cardinality({k \in 1..Len(eng.branches) :
                eng.branches[k].loading_percent > 100})
    IN  [eng EXCEPT !.current_state =
            [total_load |->
                SumOver([k \in 1..Len(eng.buses) |-> eng.buses[k].load_p],
                        Len(eng.buses)),
             total_generation |->
                SumOver([k \in 1..Len(eng.buses) |-> eng.buses[k].gen_p],
                        Len(eng.buses)),
             voltage_violations |-> voltage_violations,
             thermal_violations |-> thermal_violations,
             compliance_score |->
                Max(0, 100 - (voltage_violations + thermal_violations) * 5)]]

(***************************************************************************)
(* solve_power_flow(method)                                                *)
(***************************************************************************)
Methods == {"newton_raphson", "fast_decoupled", "gauss_seidel"}

\* the only element of a one-element set
The(S) == CHOOSE x \in S : TRUE

SolvePowerFlow(eng, method) ==
    IF Len(eng.buses) = 0
    THEN [engine |-> eng, converged |-> FALSE, iterations |-> 0,
          path |-> "no_buses", stale |-> FALSE]
    ELSE The({
           [engine |-> IF sol.converged
                       THEN update_system_state(
                              branch_flows([built EXCEPT !.buses = sol.buses]))
                       ELSE [built EXCEPT !.buses = sol.buses],
            converged |-> sol.converged,
            iterations |-> sol.iterations,
            path |-> sol.path,
            stale |-> eng.matrices_valid /\ ~CacheIsFresh(eng)] :
           <<built, sol>> \in
              {<<b, IF method = "gauss_seidel"
                    THEN solve_gauss_seidel(b.buses, 1)
                    ELSE solve_newton_raphson_python(b)>> :
                 b \in {build_system_matrices(eng)}}})

(***************************************************************************)
(* _run_single_contingency and _run_contingencies_sequential               *)
(***************************************************************************)
RECURSIVE SignificantLines(_, _)
SignificantLines(eng, k) ==
    IF k > Len(eng.branches) THEN <<>>
    ELSE (IF eng.branches[k].rating_a >= 100
          THEN <<[type |-> "line", component_id |-> eng.branches[k].id]>>
          ELSE <<>>) \o SignificantLines(eng, k + 1)

RECURSIVE SignificantGenerators(_, _)
SignificantGenerators(eng, k) ==
    IF k > Len(eng.buses) THEN <<>>
    ELSE (IF eng.buses[k].gen_p_max >= 100
          THEN <<[type |-> "generator", component_id |-> eng.buses[k].id]>>
          ELSE <<>>) \o SignificantGenerators(eng, k + 1)

\* the list run_n1_contingency_analysis builds
ContingencyList(eng) == SignificantLines(eng, 1) \o SignificantGenerators(eng, 1)

SavedState(eng) ==
    [branches |-> [k \in 1..Len(eng.branches) |-> eng.branches[k].is_online],
     buses |-> [k \in 1..Len(eng.buses) |->
                  [gen_p |-> eng.buses[k].gen_p, gen_q |-> eng.buses[k].gen_q]]]

\* variant: the flag is left as the solve set it
RestoredEngine_flag_kept(eng, state) ==
    [eng EXCEPT
        !.branches = [k \in 1..Len(eng.branches) |->
            [eng.branches[k] EXCEPT !.is_online = state.branches[k]]],
        !.buses = [k \in 1..Len(eng.buses) |->
            [eng.buses[k] EXCEPT !.gen_p = state.buses[k].gen_p,
                                 !.gen_q = state.buses[k].gen_q]]]

\* _restore_system_state: is_online, gen_p and gen_q are written back and
\* the matrix flag is cleared
RestoredEngine(eng, state) ==
    [eng EXCEPT
        !.branches = [k \in 1..Len(eng.branches) |->
            [eng.branches[k] EXCEPT !.is_online = state.branches[k]]],
        !.buses = [k \in 1..Len(eng.buses) |->
            [eng.buses[k] EXCEPT !.gen_p = state.buses[k].gen_p,
                                 !.gen_q = state.buses[k].gen_q]],
        !.matrices_valid = FALSE]

\* the line is opened and the matrix flag cleared, or the generator zeroed
AppliedContingency(eng, cont) ==
    IF cont.type = "line"
    THEN [eng EXCEPT !.branches[BranchAt(eng, cont.component_id)].is_online = FALSE,
                     !.matrices_valid = FALSE]
    ELSE [eng EXCEPT !.buses[BusAt(eng, cont.component_id)].gen_p = 0,
                     !.buses[BusAt(eng, cont.component_id)].gen_q = 0]

RECURSIVE WorstVoltage(_, _)
WorstVoltage(bs, k) ==
    IF k = 0 THEN 0
    ELSE Max(WorstVoltage(bs, k - 1),
             BusViolation(Magnitude(bs[k].voltage.re, bs[k].voltage.im) * 100))

RECURSIVE WorstThermal(_, _)
WorstThermal(brs, k) ==
    IF k = 0 THEN 0
    ELSE Max(WorstThermal(brs, k - 1),
             IF brs[k].loading_percent > 100
             THEN brs[k].loading_percent - 100 ELSE 0)

\* the branches with the loading of every branch that the solve did not
\* compute set to zero
InService(brs) ==
    [k \in 1..Len(brs) |->
        IF (~brs[k].is_online) \/ brs[k].is_breaker_open \/ brs[k].rating_a <= 0
        THEN [brs[k] EXCEPT !.loading_percent = 0]
        ELSE brs[k]]

run_single_contingency(eng, cont) ==
    The({
      [engine |-> RestoredEngine(solve.engine, SavedState(eng)),
       own_thermal |->
          IF solve.converged
          THEN WorstThermal(InService(solve.engine.branches),
                            Len(solve.engine.branches))
          ELSE 0,
       result |->
          ContingencyResult(cont, solve.converged,
              IF solve.converged
              THEN WorstVoltage(solve.engine.buses, Len(solve.engine.buses))
              ELSE 0,
              IF solve.converged
              THEN WorstThermal(solve.engine.branches,
                                Len(solve.engine.branches))
              ELSE 0),
       stale |-> solve.stale] :
      solve \in {SolvePowerFlow(AppliedContingency(eng, cont),
                                "newton_raphson")}})

RECURSIVE run_contingencies_sequential(_, _, _)
run_contingencies_sequential(eng, conts, k) ==
    IF k > Len(conts)
    THEN [engine |-> eng, results |-> <<>>, own_thermal |-> <<>>,
          stale |-> FALSE]
    ELSE The({
           [engine |-> rest.engine,
            results |-> <<one.result>> \o rest.results,
            own_thermal |-> <<one.own_thermal>> \o rest.own_thermal,
            stale |-> one.stale \/ rest.stale] :
           <<one, rest>> \in
              {<<o, run_contingencies_sequential(o.engine, conts, k + 1)>> :
                 o \in {run_single_contingency(eng, conts[k])}}})

\* a list processed backwards
Reversed(seq) == [k \in 1..Len(seq) |-> seq[Len(seq) + 1 - k]]

(***************************************************************************)
(* The calls                                                               *)
(***************************************************************************)
NoPfCall ==
    [op |-> "none", arg |-> 0, method |-> "none", raised |-> FALSE,
     converged |-> FALSE,
     iterations |-> 0, path |-> "none", voltages_kept |-> TRUE,
     stale |-> FALSE, results |-> <<>>, reference |-> <<>>,
     own_thermal |-> <<>>]

InitPF ==
    /\ engine = NewEngine
    /\ pf_call = NoPfCall

ParkedPF == InitPF

\* add_bus(bus): a second bus with a stored id is refused
add_bus(id, kind) ==
    /\ IF id \in StoredBusIds(engine)
       THEN /\ pf_call' = [NoPfCall EXCEPT !.op = "add_bus", !.arg = id,
                                           !.raised = TRUE]
            /\ UNCHANGED engine
       ELSE /\ pf_call' = [NoPfCall EXCEPT !.op = "add_bus", !.arg = id]
            /\ engine' = [engine EXCEPT
                            !.buses = Append(@, GridBus(id, kind)),
                            !.matrices_valid = FALSE]
    /\ UNCHANGED <<n1vars, simvars, bsvars, fcrvars, gamevars, stdvars,
                 avrvars, pgvars>>

\* variant: the to_bus test is left out
RefusedBranch_from_only(eng, br) ==
    \/ br.id \in StoredBranchIds(eng)
    \/ br.from_bus \notin StoredBusIds(eng)

\* the three tests of add_branch
RefusedBranch(eng, br) ==
    \/ br.id \in StoredBranchIds(eng)
    \/ br.from_bus \notin StoredBusIds(eng)
    \/ br.to_bus \notin StoredBusIds(eng)

\* add_branch(branch): refused, or stored with a rating and the flag cleared
add_branch(id) ==
    /\ IF RefusedBranch(engine, GridBranch(id))
       THEN /\ pf_call' = [NoPfCall EXCEPT !.op = "add_branch", !.arg = id,
                                           !.raised = TRUE]
            /\ UNCHANGED engine
       ELSE /\ pf_call' = [NoPfCall EXCEPT !.op = "add_branch", !.arg = id]
            /\ engine' = [engine EXCEPT
                  !.branches = Append(@,
                      IF GridBranch(id).rating_a = 0
                      THEN [GridBranch(id) EXCEPT !.rating_a =
                              estimate_thermal_limit(
                                engine.buses[BusAt(engine, GridBranch(id).from_bus)]
                                    .voltage_level)]
                      ELSE GridBranch(id)),
                  !.matrices_valid = FALSE]
    /\ UNCHANGED <<n1vars, simvars, bsvars, fcrvars, gamevars, stdvars,
                 avrvars, pgvars>>

\* solve_power_flow(method): the caller receives the convergence status
solve_power_flow(method) ==
    /\ \E solve \in {SolvePowerFlow(engine, method)} :
         /\ engine' = solve.engine
         /\ pf_call' = [NoPfCall EXCEPT
                          !.op = "solve_power_flow",
                          !.method = method,
                          !.converged = solve.converged,
                          !.iterations = solve.iterations,
                          !.path = solve.path,
                          !.voltages_kept =
                              \A k \in 1..Len(engine.buses) :
                                  solve.engine.buses[k].voltage
                                      = engine.buses[k].voltage,
                          !.stale = solve.stale]
    /\ UNCHANGED <<n1vars, simvars, bsvars, fcrvars, gamevars, stdvars,
                 avrvars, pgvars>>

\* _run_contingencies_sequential(contingencies), the list in one of its
\* orders; the reference is the run in the listed order on the same engine
run_contingencies(backwards) ==
    /\ \E conts \in {ContingencyList(engine)} :
       \E order \in {IF backwards THEN Reversed(conts) ELSE conts} :
       \E run \in {run_contingencies_sequential(engine, order, 1)} :
         /\ engine' = run.engine
         /\ pf_call' = [NoPfCall EXCEPT
                          !.op = "run_contingencies",
                          !.method = IF backwards THEN "backwards" ELSE "listed",
                          !.stale = run.stale,
                          !.results = run.results,
                          !.own_thermal = run.own_thermal,
                          !.reference =
                             IF backwards
                             THEN run_contingencies_sequential(engine, conts, 1).results
                             ELSE run.results]
    /\ UNCHANGED <<n1vars, simvars, bsvars, fcrvars, gamevars, stdvars,
                 avrvars, pgvars>>

NextPF ==
    \/ \E id \in BusIds : \E kind \in BusKinds(id) : add_bus(id, kind)
    \/ \E id \in BranchIds : add_branch(id)
    \/ \E method \in Methods : solve_power_flow(method)
    \/ \E backwards \in BOOLEAN : run_contingencies(backwards)

(***************************************************************************)
(* Properties of the power-flow engine                                     *)
(***************************************************************************)
\* C14: a solve_power_flow call ends after at most max_iterations
\* Newton-Raphson iterations, or 2 x max_iterations Gauss-Seidel sweeps, and
\* a solve that used them all up hands back "not converged" as a value; no
\* solve raises.
C14_SolveTerminates ==
    pf_call.op = "solve_power_flow" =>
        /\ ~pf_call.raised
        /\ pf_call.iterations <=
              (IF pf_call.method = "gauss_seidel"
               THEN 2 * max_iterations ELSE max_iterations)
        /\ pf_call.path = "iteration_cap" => ~pf_call.converged

C14_Witness ==
    /\ pf_call.op = "solve_power_flow"
    /\ pf_call.method = "gauss_seidel"
    /\ pf_call.path = "iteration_cap"
    /\ pf_call.iterations = 2 * max_iterations
    /\ ~pf_call.converged

\* what the caller of solve_power_flow receives
Received(call) == [raised |-> call.raised, converged |-> call.converged]

C15_VoltagesKept ==
    (pf_call.op = "solve_power_flow"
        /\ pf_call.path \in {"singular", "iteration_cap"})
    => pf_call.voltages_kept

C15_Told ==
    (/\ pf_call.op = "solve_power_flow" /\ pf_call.path = "singular"
     /\ pf_call'.op = "solve_power_flow" /\ pf_call'.path = "iteration_cap")
    => Received(pf_call') # Received(pf_call)

\* C15: a solve that met a singular Jacobian and a solve that ran out of
\* iterations hand different outcomes to the caller, and both leave the
\* stored bus voltages as they were.
C15_SingularDistinct == [](C15_VoltagesKept) /\ [][C15_Told]_vars

EndpointsStored ==
    \A k \in 1..Len(engine.branches) :
        /\ engine.branches[k].from_bus \in StoredBusIds(engine)
        /\ engine.branches[k].to_bus \in StoredBusIds(engine)

C16_Raises ==
    /\ pf_call'.op = "add_bus" =>
          (pf_call'.raised <=> pf_call'.arg \in StoredBusIds(engine))
    /\ pf_call'.op = "add_branch" =>
          (pf_call'.raised <=>
              \/ pf_call'.arg \in StoredBranchIds(engine)
              \/ GridBranch(pf_call'.arg).from_bus \notin StoredBusIds(engine)
              \/ GridBranch(pf_call'.arg).to_bus \notin StoredBusIds(engine))
    /\ pf_call'.raised => engine' = engine

\* C16: add_bus raises on a stored bus id, add_branch raises on a stored
\* branch id or a missing endpoint bus; a call that raised left the buses,
\* the branches and the matrix flag as they were; the endpoints of every
\* stored branch are stored buses.
C16_Refusals == [](EndpointsStored) /\ [][C16_Raises]_vars

C16_Witness ==
    /\ pf_call.op = "add_branch"
    /\ pf_call.raised
    /\ pf_call.arg \notin StoredBranchIds(engine)
    /\ engine.matrices_valid

\* a slack bus, one load bus drawing active power within the capacity of
\* the slack bus, one line between them
RadialTwoBus ==
    /\ Len(engine.buses) = 2
    /\ Len(engine.branches) = 1
    /\ \E s, l \in 1..2 :
         /\ engine.buses[s].is_slack
         /\ ~engine.buses[l].is_slack
         /\ engine.buses[l].load_p > 0
         /\ engine.buses[l].load_p <= engine.buses[s].gen_p_max

\* C17: on the radial 2-bus system the Newton-Raphson solve converges within
\* 20 iterations, and no Jacobian it builds is singular.
C17_RadialConverges ==
    (RadialTwoBus /\ pf_call.op = "solve_power_flow"
        /\ pf_call.method = "newton_raphson")
    => /\ pf_call.converged
       /\ pf_call.iterations <= 20
       /\ pf_call.path # "singular"

\* C18: the result of a contingency is the same whether the list is
\* processed as listed or backwards.
C18_OrderInsensitive ==
    pf_call.op = "run_contingencies" =>
        \A i, j \in 1..Len(pf_call.results) :
            (/\ pf_call.results[i].type = pf_call.reference[j].type
             /\ pf_call.results[i].component_id = pf_call.reference[j].component_id)
            => pf_call.results[i] = pf_call.reference[j]

\* what the admittance matrix is built from
Structure(eng) ==
    [buses |-> [k \in 1..Len(eng.buses) |-> eng.buses[k].id],
     branches |-> [k \in 1..Len(eng.branches) |->
        <<eng.branches[k].id, eng.branches[k].from_bus, eng.branches[k].to_bus,
          eng.branches[k].admittance, eng.branches[k].is_online,
          eng.branches[k].is_breaker_open>>]]

C19_Fresh ==
    /\ engine.matrices_valid => CacheIsFresh(engine)
    /\ ~pf_call.stale

C19_Cleared ==
    Structure(engine') # Structure(engine) => ~engine'.matrices_valid

\* C19: whenever the matrix flag is set the cached matrix and index map are
\* the ones a rebuild would give, no solve (inside a contingency or not)
\* worked on another matrix, and a call that changed the buses or branches
\* cleared the flag.
C19_NeverStale == [](C19_Fresh) /\ [][C19_Cleared]_vars

C19_Witness ==
    /\ pf_call.op = "solve_power_flow"
    /\ engine.matrices_valid
    /\ Len(engine.branches) = 2
    /\ \A k \in 1..2 : engine.branches[k].loading_percent > 0

\* what the analysis is said to leave alone: the bus voltages, the branch
\* loadings and current_state
SolvedState(eng) ==
    [voltages |-> [k \in 1..Len(eng.buses) |-> eng.buses[k].voltage],
     loadings |-> [k \in 1..Len(eng.branches) |->
                     eng.branches[k].loading_percent],
     current_state |-> eng.current_state]

C24_Frame ==
    pf_call'.op = "run_contingencies" => SolvedState(engine') = SolvedState(engine)

\* C24: a contingency analysis leaves every bus voltage, every branch
\* loading and current_state (totals, violation counts, compliance score)
\* as they were before it.
C24_SolvedStateKept == [][C24_Frame]_vars

\* C25: the worst thermal violation and the critical flag of a contingency
\* come from the loadings its own solve computed: the loading of the
\* outaged line, or one left by an earlier solve, adds nothing.
C25_OwnLoadingsOnly ==
    pf_call.op = "run_contingencies" =>
        \A i \in 1..Len(pf_call.results) :
            /\ pf_call.results[i].max_thermal_violation = pf_call.own_thermal[i]
            /\ pf_call.results[i].critical =
                  IsCritical(pf_call.results[i].converged,
                             pf_call.results[i].max_voltage_violation,
                             pf_call.own_thermal[i])

(***************************************************************************)
(* european_grid_game.py / web_app.py: the blackstart scenario while the   *)
(* grid is being changed                                                   *)
(*                                                                         *)
(* add_component stores a component with the keys type, config, x, y,      *)
(* status, output and load: the capacity is under 'config', and the        *)
(* component has no key 'capacity'.  The blackstart methods read           *)
(* component['capacity'], so they raise KeyError once such a component is  *)
(* in the grid; they work on components that carry the key.                *)
(***************************************************************************)
\* self.budget = 500000
european_budget == 500000

\* the types add_component is called with; the last is no component type
AddedTypes == {"hydro_plant", "load_center", "fusion_plant"}

KnownType(type) ==
    type \in {"nuclear_plant", "coal_plant", "gas_plant", "hydro_plant",
              "wind_farm", "solar_farm", "substation_400", "substation_220",
              "load_center"}

\* what the blackstart methods see of a component add_component stored
ComponentWithoutCapacity(type) ==
    [type |-> type, capacity |-> 0, has_capacity |-> FALSE,
     blackstart_capable |-> FALSE, priority |-> 3,
     is_active |-> FALSE, current_output |-> 0]

\* self.budget: the initial budget less the cost of the components
\* add_component stored
Budget(comps) ==
    european_budget
      - SumOver([i \in 1..Len(comps) |->
                    IF comps[i].has_capacity THEN 0
                    ELSE ConfigCost(comps[i].type)], Len(comps))

\* the grids a scenario is started on
StartGrids ==
    {<<>>,
     <<NewComponent("hydro_plant", 300, TRUE, 3),
       NewComponent("load_center", -400, FALSE, 3)>>,
     <<NewComponent("gas_plant", 400, FALSE, 3),
       NewComponent("hydro_plant", 300, TRUE, 3),
       NewComponent("load_center", -1000, FALSE, 1)>>}

InitReconfigured ==
    /\ standards_blackstart \in BOOLEAN
    /\ components \in StartGrids
    /\ blackstart_capability_status = NoStatus
    /\ blackstart_scenario_active = FALSE
    /\ restoration_sequence = <<>>
    /\ current_restoration_phase = 0
    /\ bs_ret = NoReturn

\* add_component(component_type): refused for an unknown type and for a cost
\* above the budget; the component is stored under the next id.  The totals
\* _update_grid_parameters recomputes are read by no blackstart method
add_component(type) ==
    /\ Len(components) < NumComponents
    /\ IF (~KnownType(type)) \/ Budget(components) < ConfigCost(type)
       THEN /\ bs_ret' = Return("add_component", "None", <<>>)
            /\ UNCHANGED components
       ELSE /\ components' = Append(components, ComponentWithoutCapacity(type))
            /\ bs_ret' = Return("add_component", "id", <<>>)
    /\ UNCHANGED <<standards_blackstart, blackstart_capability_status,
                   blackstart_scenario_active, restoration_sequence,
                   current_restoration_phase>>
    /\ UNCHANGED outsideBS

\* configure_blackstart_capability(component_id, blackstart_capable): only a
\* generator of the grid can be configured
configure_blackstart_capability(id, capable) ==
    /\ IF id > Len(components)
       THEN /\ bs_ret' = Return("configure", "False", <<>>)
            /\ UNCHANGED components
       ELSE IF ~components[id].has_capacity
       THEN /\ bs_ret' = Return("configure", "KeyError", <<>>)
            /\ UNCHANGED components
       ELSE IF components[id].capacity <= 0
       THEN /\ bs_ret' = Return("configure", "False", <<>>)
            /\ UNCHANGED components
       ELSE /\ components' =
                  [components EXCEPT ![id].blackstart_capable = capable]
            /\ bs_ret' = Return("configure", "True", <<>>)
    /\ UNCHANGED <<standards_blackstart, blackstart_capability_status,
                   blackstart_scenario_active, restoration_sequence,
                   current_restoration_phase>>
    /\ UNCHANGED outsideBS

\* simulate_blackstart_procedure() of web_app.py: refuses without a stored
\* sequence, otherwise marks the scenario active and rewinds the cursor
simulate_blackstart_procedure ==
    /\ IF restoration_sequence = <<>>
       THEN /\ bs_ret' = Return("simulate", "False", <<>>)
            /\ UNCHANGED <<blackstart_scenario_active,
                           current_restoration_phase>>
       ELSE /\ blackstart_scenario_active' = TRUE
            /\ current_restoration_phase' = 0
            /\ bs_ret' = Return("simulate", "True", <<>>)
    /\ UNCHANGED <<standards_blackstart, components,
                   blackstart_capability_status, restoration_sequence>>
    /\ UNCHANGED outsideBS

NextReconfigured ==
    \/ assess_blackstart_capability
    \/ initiate_blackstart_scenario
    \/ advance_restoration_sequence
    \/ simulate_blackstart_procedure
    \/ \E type \in AddedTypes : add_component(type)
    \/ \E id \in 1..NumComponents, capable \in BOOLEAN :
          configure_blackstart_capability(id, capable)

NumAvrComponents == 2

\* the PI gains and the time step of apply_voltage_control
kp == 20
ki == 5
avr_dt == 1

ExcitationTables ==
    {[present |-> FALSE, floor |-> 0, ceiling |-> 0],
     [present |-> TRUE, floor |-> -200, ceiling |-> 500],
     [present |-> TRUE, floor |-> -800, ceiling |-> 800]}

\* component.get('reactive_power_limits', {}) without the key
NoLimits == [configured |-> FALSE, min |-> 0, max |-> 0]

\* a component as the voltage control reads it; has_capacity as in the
\* blackstart part
AvrComponent(capacity, has_capacity, magnitude, limits) ==
    [capacity |-> capacity, has_capacity |-> has_capacity,
     voltage_control_enabled |-> FALSE, avr_enabled |-> FALSE,
     voltage_setpoint |-> 100, voltage_magnitude |-> magnitude,
     reactive_power_limits |-> limits, reactive_power |-> 0]

AvrComponentChoices ==
    {AvrComponent(300, TRUE, 100, NoLimits),
     AvrComponent(400, TRUE, 95,
                  [configured |-> TRUE, min |-> -50000, max |-> 100000]),
     AvrComponent(-400, TRUE, 100, NoLimits),
     AvrComponent(0, FALSE, 100, NoLimits)}

AvrGrids ==
    UNION {[1..n -> AvrComponentChoices] : n \in 0..NumAvrComponents}

\* the setpoints enable_voltage_control is called with, in 1e-2 pu
Setpoints == {80, 100, 104, 130}

\* if component.get('voltage_control_enabled') and component.get('avr_enabled')
ControlEnabled(comp) == comp.voltage_control_enabled /\ comp.avr_enabled

\* pi_output = kp * voltage_error + ki * voltage_error * dt
PiOutput(comp) ==
    LET voltage_error == comp.voltage_setpoint - comp.voltage_magnitude IN
    kp * voltage_error + ki * voltage_error * avr_dt

\* max(low, min(high, x))
Clamp(low, high, x) == Max(low, Min(high, x))

\* limited_output = max(min_excitation, min(max_excitation, pi_output))
LimitedOutput(comp, table) == Clamp(table.floor, table.ceiling, PiOutput(comp))

\* reactive_power_adjustment = limited_output * capacity * 0.1
ReactivePowerAdjustment(comp, table) ==
    LimitedOutput(comp, table) * comp.capacity

\* the limits of a component: the configured ones, or +-50% of the capacity
MaxQ(comp) ==
    IF comp.reactive_power_limits.configured
    THEN comp.reactive_power_limits.max ELSE comp.capacity * 500

MinQ(comp) ==
    IF comp.reactive_power_limits.configured
    THEN comp.reactive_power_limits.min ELSE -(comp.capacity * 500)

\* variant: the adjustment is stored as it is
NewReactivePower_unlimited(comp, table) == ReactivePowerAdjustment(comp, table)

\* new_reactive_power = max(min_q, min(max_q, reactive_power_adjustment))
NewReactivePower(comp, table) ==
    Clamp(MinQ(comp), MaxQ(comp), ReactivePowerAdjustment(comp, table))

\* the components after the loop of apply_voltage_control
Controlled(comps, table) ==
    [i \in 1..Len(comps) |->
        IF ControlEnabled(comps[i])
        THEN [comps[i] EXCEPT !.reactive_power = NewReactivePower(comps[i], table)]
        ELSE comps[i]]

NoAvrCall == [op |-> "none", result |-> "none", adjustments |-> <<>>]

InitAVR ==
    /\ excitation_table \in ExcitationTables
    /\ avr_components \in AvrGrids
    /\ voltage_control_active = FALSE
    /\ avr_ret = NoAvrCall

ParkedAVR ==
    /\ excitation_table = [present |-> FALSE, floor |-> 0, ceiling |-> 0]
    /\ avr_components = <<>>
    /\ voltage_control_active = FALSE
    /\ avr_ret = NoAvrCall

outsideAVR ==
    <<n1vars, simvars, bsvars, fcrvars, gamevars, stdvars, pfvars, pgvars>>

\* enable_voltage_control(component_id, voltage_setpoint): only a generator
\* of the grid can control voltage
enable_voltage_control(id, setpoint) ==
    /\ IF id > Len(avr_components)
       THEN /\ avr_ret' = [NoAvrCall EXCEPT !.op = "enable", !.result = "False"]
            /\ UNCHANGED <<avr_components, voltage_control_active>>
       ELSE IF ~avr_components[id].has_capacity
       THEN /\ avr_ret' = [NoAvrCall EXCEPT !.op = "enable",
                                            !.result = "KeyError"]
            /\ UNCHANGED <<avr_components, voltage_control_active>>
       ELSE IF avr_components[id].capacity <= 0
       THEN /\ avr_ret' = [NoAvrCall EXCEPT !.op = "enable", !.result = "False"]
            /\ UNCHANGED <<avr_components, voltage_control_active>>
       ELSE /\ avr_components' =
                  [avr_components EXCEPT ![id].voltage_control_enabled = TRUE,
                                         ![id].voltage_setpoint = setpoint,
                                         ![id].avr_enabled = TRUE]
            /\ voltage_control_active' = TRUE
            /\ avr_ret' = [NoAvrCall EXCEPT !.op = "enable", !.result = "True"]
    /\ UNCHANGED excitation_table
    /\ UNCHANGED outsideAVR

\* apply_voltage_control(): the first enabled component makes the method
\* read the excitation limits, which raises when the table lacks them,
\* before anything is stored
apply_voltage_control ==
    LET enabled == {i \in 1..Len(avr_components) :
                        ControlEnabled(avr_components[i])} IN
    /\ IF enabled # {} /\ ~excitation_table.present
       THEN /\ avr_ret' = [NoAvrCall EXCEPT !.op = "apply",
                                            !.result = "AttributeError"]
            /\ UNCHANGED avr_components
       ELSE /\ avr_components' = Controlled(avr_components, excitation_table)
            /\ avr_ret' =
                  [op |-> "apply", result |-> "adjustments",
                   adjustments |->
                      [i \in enabled |->
                          NewReactivePower(avr_components[i], excitation_table)]]
    /\ UNCHANGED <<excitation_table, voltage_control_active>>
    /\ UNCHANGED outsideAVR

NextAVR ==
    \/ \E id \in 1..NumAvrComponents, setpoint \in Setpoints :
          enable_voltage_control(id, setpoint)
    \/ apply_voltage_control

(***************************************************************************)
(* Properties of the automatic voltage control                             *)
(***************************************************************************)
C23_Applied ==
    (avr_ret'.op = "apply") =>
      IF avr_ret'.result = "adjustments"
      THEN \A i \in 1..Len(avr_components) :
             LET comp == avr_components[i] IN
             IF ControlEnabled(comp)
             THEN \* the PI output is clamped to the excitation limits
                  /\ LimitedOutput(comp, excitation_table)
                        >= excitation_table.floor
                  /\ LimitedOutput(comp, excitation_table)
                        <= excitation_table.ceiling
                  \* the stored reactive power is within the limits of the
                  \* component, and it is what the call returns
                  /\ avr_components'[i].reactive_power >= MinQ(comp)
                  /\ avr_components'[i].reactive_power <= MaxQ(comp)
                  /\ i \in DOMAIN avr_ret'.adjustments
                  /\ avr_ret'.adjustments[i] = avr_components'[i].reactive_power
                  \* nothing else of the component is written
                  /\ [avr_components'[i] EXCEPT !.reactive_power = 0]
                        = [comp EXCEPT !.reactive_power = 0]
                  \* the value is the one the component gets on its own
                  /\ avr_components'[i].reactive_power =
                        Controlled(<<comp>>, excitation_table)[1].reactive_power
             ELSE /\ avr_components'[i] = comp
                  /\ i \notin DOMAIN avr_ret'.adjustments
      ELSE avr_components' = avr_components

MaxPlacements == 3
\* the components and lines placed at a time, when placements are undone
MaxUndoComponents == 3
MaxUndoLines == 2

\* GridStats(budget=500000.0), restored by clear_grid
initial_budget == 500000
\* self.max_history_size
max_history_size == 50

\* COMPONENT_CONFIG[type]['cost']
get_component_cost(type) ==
    CASE type = "generator" -> 10000
      [] type = "substation" -> 5000
      [] type = "load" -> 0

\* what place_component is called with: a type and a position
ComponentPlacements == {<<"generator", 0>>, <<"load", 1000>>}
\* what place_grid_node is called with
NodePositions == {0}
\* what place_line is called with
LineTypes == {"hvdc-line"}
\* an id that is neither a component nor a node
missing_id == <<"none", 0>>

\* cost_per_km.get(line_type, 2000)
cost_per_km(line_type) ==
    CASE line_type = "transmission-line" -> 2000
      [] line_type = "distribution-line" -> 1000
      [] line_type = "hvdc-line" -> 3000
      [] OTHER -> 2000

calculate_distance(p1, p2) == Abs(p2 - p1)

\* cost = round(length * cost_per_km), the length being distance / 10
LineCost(line_type, p1, p2) ==
    RoundDiv(calculate_distance(p1, p2) * cost_per_km(line_type), 10)

\* d[k] = v and del d[k]
Put(d, k, v) == [x \in (DOMAIN d) \cup {k} |-> IF x = k THEN v ELSE d[x]]
Delete(d, k) == [x \in (DOMAIN d) \ {k} |-> d[x]]

\* list.remove(x): the first occurrence goes
RemoveFirst(list, x) ==
    LET first == CHOOSE i \in 1..Len(list) :
                    list[i] = x /\ \A j \in 1..(i - 1) : list[j] # x
    IN  SubSeq(list, 1, first - 1) \o SubSeq(list, first + 1, Len(list))

Contains(list, x) == \E i \in 1..Len(list) : list[i] = x

\* find_nearest_node(position): the first node, in id order, nearer than
\* every node before it and nearer than max_distance = 30
find_nearest_node(nodes, position) ==
    LET near == {k \in DOMAIN nodes :
                    calculate_distance(position, nodes[k].position) < 30}
    IN  IF near = {} THEN missing_id
        ELSE CHOOSE k \in near :
                \A j \in near :
                    LET dk == calculate_distance(position, nodes[k].position)
                        dj == calculate_distance(position, nodes[j].position)
                    IN  dk < dj \/ (dk = dj /\ k[2] <= j[2])

\* the game as the closures of a command see it
Game ==
    [components |-> pg_components, lines |-> pg_lines, nodes |-> grid_nodes,
     budget |-> budget, component_counter |-> component_counter,
     line_counter |-> line_counter, node_counter |-> node_counter]

\* connect_component_to_node(component_id, node_id)
connect_component_to_node(g, component_id, node_id) ==
    IF component_id \in DOMAIN g.components /\ node_id \in DOMAIN g.nodes
    THEN [g EXCEPT
            !.components[component_id].connected_node = node_id,
            !.nodes[node_id].connected_components =
                IF Contains(@, component_id) THEN @ ELSE Append(@, component_id)]
    ELSE g

\* variant: undoing a placement gives no money back
Refund_none(amount, cost) == amount

\* self.stats.budget += cost
Refund(amount, cost) == amount + cost

\* the execute closure of a command
Execute(g, cmd) ==
    IF cmd.type = "place-component"
    THEN LET placed == [g EXCEPT !.components = Put(@, cmd.id, cmd.object),
                                 !.budget = @ - cmd.cost]
             connected == IF cmd.nearest_node # missing_id
                          THEN connect_component_to_node(placed, cmd.id,
                                                         cmd.nearest_node)
                          ELSE placed
         IN  [connected EXCEPT !.component_counter = @ + 1]
    ELSE IF cmd.type = "place-line"
    THEN LET from_id == cmd.object.from_id
             to_id == cmd.object.to_id
             comps == [k \in DOMAIN g.components |->
                         IF k = from_id /\ k = to_id
                         THEN [g.components[k] EXCEPT
                                 !.connections = Append(Append(@, to_id), from_id)]
                         ELSE IF k = from_id
                         THEN [g.components[k] EXCEPT
                                 !.connections = Append(@, to_id)]
                         ELSE IF k = to_id
                         THEN [g.components[k] EXCEPT
                                 !.connections = Append(@, from_id)]
                         ELSE g.components[k]]
             nodes == [k \in DOMAIN g.nodes |->
                         IF k = from_id \/ k = to_id
                         THEN [g.nodes[k] EXCEPT
                                 !.connected_lines = Append(@, cmd.id)]
                         ELSE g.nodes[k]]
         IN  [g EXCEPT !.lines = Put(@, cmd.id, cmd.object),
                       !.components = comps,
                       !.nodes = nodes,
                       !.budget = @ - cmd.cost,
                       !.line_counter = @ + 1]
    ELSE [g EXCEPT !.nodes = Put(@, cmd.id, cmd.object),
                   !.node_counter = @ + 1]

\* the undo closure of a command
Undo(g, cmd) ==
    IF cmd.type = "place-component"
    THEN [g EXCEPT
            !.components = Delete(@, cmd.id),
            !.budget = Refund(@, cmd.cost),
            !.nodes = [k \in DOMAIN @ |->
                         IF k = cmd.nearest_node
                            /\ Contains(@[k].connected_components, cmd.id)
                         THEN [@[k] EXCEPT !.connected_components =
                                              RemoveFirst(@, cmd.id)]
                         ELSE @[k]],
            !.component_counter = @ - 1]
    ELSE IF cmd.type = "place-line"
    THEN LET from_id == cmd.object.from_id
             to_id == cmd.object.to_id
             Without(list, x) ==
                 IF Contains(list, x) THEN RemoveFirst(list, x) ELSE list
             comps == [k \in DOMAIN g.components |->
                         IF k = from_id
                         THEN [g.components[k] EXCEPT
                                 !.connections = Without(@, to_id)]
                         ELSE IF k = to_id
                         THEN [g.components[k] EXCEPT
                                 !.connections = Without(@, from_id)]
                         ELSE g.components[k]]
             nodes == [k \in DOMAIN g.nodes |->
                         IF k = from_id \/ k = to_id
                         THEN [g.nodes[k] EXCEPT
                                 !.connected_lines = Without(@, cmd.id)]
                         ELSE g.nodes[k]]
         IN  [g EXCEPT !.lines = Delete(@, cmd.id),
                       !.components = comps,
                       !.nodes = nodes,
                       !.budget = Refund(@, cmd.cost),
                       !.line_counter = @ - 1]
    ELSE [g EXCEPT !.nodes = Delete(@, cmd.id),
                   !.node_counter = @ - 1]

\* the object a command keeps, as it is when the command is undone
KeptObject(g, cmd) ==
    IF cmd.type = "place-component" /\ cmd.id \in DOMAIN g.components
    THEN g.components[cmd.id]
    ELSE IF cmd.type = "place-node" /\ cmd.id \in DOMAIN g.nodes
    THEN g.nodes[cmd.id]
    ELSE cmd.object

\* add_command(command): the redo tail goes, the oldest command goes when
\* the history is full
AddedHistory(history, index, cmd) ==
    LET appended == Append(SubSeq(history, 1, index + 1), cmd) IN
    IF Len(appended) > max_history_size THEN Tail(appended) ELSE appended

AddedIndex(history, index, cmd) ==
    IF Len(Append(SubSeq(history, 1, index + 1), cmd)) > max_history_size
    THEN index ELSE index + 1

NoPgCall == [op |-> "none", ok |-> FALSE, refused_for |-> "none"]

PgReturn(op, ok, why) == [op |-> op, ok |-> ok, refused_for |-> why]

InitPG ==
    /\ pg_components = <<>>
    /\ pg_lines = <<>>
    /\ grid_nodes = <<>>
    /\ budget = initial_budget
    /\ component_counter = 0
    /\ line_counter = 0
    /\ node_counter = 0
    /\ command_history = <<>>
    /\ current_command_index = -1
    /\ pg_ret = NoPgCall

ParkedPG == InitPG

outsidePG ==
    <<n1vars, simvars, bsvars, fcrvars, gamevars, stdvars, pfvars, avrvars>>

\* the game becomes g
Becomes(g) ==
    /\ pg_components' = g.components
    /\ pg_lines' = g.lines
    /\ grid_nodes' = g.nodes
    /\ budget' = g.budget
    /\ component_counter' = g.component_counter
    /\ line_counter' = g.line_counter
    /\ node_counter' = g.node_counter

\* command.execute(); self.add_command(command)
Run(cmd) ==
    /\ Becomes(Execute(Game, cmd))
    /\ command_history' =
          AddedHistory(command_history, current_command_index, cmd)
    /\ current_command_index' =
          AddedIndex(command_history, current_command_index, cmd)

Refuse(op, why) ==
    /\ pg_ret' = PgReturn(op, FALSE, why)
    /\ UNCHANGED <<pg_components, pg_lines, grid_nodes, budget,
                   component_counter, line_counter, node_counter,
                   command_history, current_command_index>>

\* the command place_component builds
ComponentCommand(type, position) ==
    [type |-> "place-component",
     id |-> <<type, component_counter + 1>>,
     object |-> [type |-> type, position |-> position,
                 cost |-> get_component_cost(type),
                 connections |-> <<>>, connected_node |-> missing_id],
     cost |-> get_component_cost(type),
     nearest_node |-> find_nearest_node(grid_nodes, position)]

\* place_component(component_type, position)
place_component(type, position) ==
    /\ IF budget < get_component_cost(type)
       THEN Refuse("place_component", "budget")
       ELSE /\ Run(ComponentCommand(type, position))
            /\ pg_ret' = PgReturn("place_component", TRUE, "none")
    /\ UNCHANGED outsidePG

\* self.components.get(id) or self.grid_nodes.get(id)
Target(id) ==
    IF id \in DOMAIN pg_components THEN pg_components[id] ELSE grid_nodes[id]

\* the command place_line builds between two targets
LineCommand(line_type, from_id, to_id) ==
    LET cost == LineCost(line_type, Target(from_id).position,
                         Target(to_id).position) IN
    [type |-> "place-line",
     id |-> <<"line", line_counter + 1>>,
     object |-> [type |-> line_type, from_id |-> from_id, to_id |-> to_id,
                 cost |-> cost],
     cost |-> cost,
     nearest_node |-> missing_id]

\* place_line(line_type, from_id, to_id)
place_line(line_type, from_id, to_id) ==
    /\ IF from_id = to_id
       THEN Refuse("place_line", "same")
       ELSE IF \E id \in {from_id, to_id} :
                  id \notin (DOMAIN pg_components) \cup (DOMAIN grid_nodes)
       THEN Refuse("place_line", "target")
       ELSE IF budget < LineCommand(line_type, from_id, to_id).cost
            THEN Refuse("place_line", "budget")
            ELSE /\ Run(LineCommand(line_type, from_id, to_id))
                 /\ pg_ret' = PgReturn("place_line", TRUE, "none")
    /\ UNCHANGED outsidePG

\* the command place_grid_node builds
NodeCommand(position) ==
    [type |-> "place-node",
     id |-> <<"node", node_counter + 1>>,
     object |-> [position |-> position, connected_components |-> <<>>,
                 connected_lines |-> <<>>],
     cost |-> 0,
     nearest_node |-> missing_id]

\* place_grid_node(position)
place_grid_node(position) ==
    /\ Run(NodeCommand(position))
    /\ pg_ret' = PgReturn("place_grid_node", TRUE, "none")
    /\ UNCHANGED outsidePG

\* undo()
undo ==
    /\ IF current_command_index >= 0
       THEN LET cmd == command_history[current_command_index + 1] IN
            /\ Becomes(Undo(Game, cmd))
            /\ command_history' =
                  [command_history EXCEPT
                     ![current_command_index + 1].object = KeptObject(Game, cmd)]
            /\ current_command_index' = current_command_index - 1
            /\ pg_ret' = PgReturn("undo", TRUE, "none")
       ELSE Refuse("undo", "nothing")
    /\ UNCHANGED outsidePG

\* redo()
redo ==
    /\ IF current_command_index < Len(command_history) - 1
       THEN /\ Becomes(Execute(Game, command_history[current_command_index + 2]))
            /\ current_command_index' = current_command_index + 1
            /\ pg_ret' = PgReturn("redo", TRUE, "none")
            /\ UNCHANGED command_history
       ELSE Refuse("redo", "nothing")
    /\ UNCHANGED outsidePG

\* clear_grid()
clear_grid ==
    /\ pg_components' = <<>>
    /\ pg_lines' = <<>>
    /\ grid_nodes' = <<>>
    /\ budget' = initial_budget
    /\ component_counter' = 0
    /\ line_counter' = 0
    /\ node_counter' = 0
    /\ command_history' = <<>>
    /\ current_command_index' = -1
    /\ pg_ret' = PgReturn("clear_grid", TRUE, "none")
    /\ UNCHANGED outsidePG

\* the ids a line can be asked between
Endpoints == (DOMAIN pg_components) \cup (DOMAIN grid_nodes) \cup {missing_id}

\* the number of objects in the grid
Placed ==
    Cardinality(DOMAIN pg_components) + Cardinality(DOMAIN pg_lines)
      + Cardinality(DOMAIN grid_nodes)

NextPG ==
    \/ \E p \in ComponentPlacements :
          place_component(p[1], p[2]) /\ Placed' <= MaxPlacements
    \/ \E line_type \in LineTypes, from_id \in Endpoints, to_id \in Endpoints :
          place_line(line_type, from_id, to_id) /\ Placed' <= MaxPlacements
    \/ \E position \in NodePositions :
          place_grid_node(position) /\ Placed' <= MaxPlacements
    \/ undo
    \/ redo
    \/ clear_grid

\* placements that are undone and redone: lines run from a component to a
\* later one
NextUndo ==
    \/ \E p \in ComponentPlacements :
          /\ place_component(p[1], p[2])
          /\ Cardinality(DOMAIN pg_components') <= MaxUndoComponents
    \/ \E line_type \in LineTypes, from_id, to_id \in DOMAIN pg_components :
          /\ from_id[2] < to_id[2]
          /\ place_line(line_type, from_id, to_id)
          /\ Cardinality(DOMAIN pg_lines') <= MaxUndoLines
    \/ undo
    \/ redo

(***************************************************************************)
(* Properties of placement, undo and redo                                  *)
(***************************************************************************)
RECURSIVE CostOf(_, _)
CostOf(d, ids) ==
    IF ids = {} THEN 0
    ELSE LET k == CHOOSE k \in ids : TRUE IN
         d[k].cost + CostOf(d, ids \ {k})

C29_Balance ==
    /\ budget >= 0
    /\ budget + CostOf(pg_components, DOMAIN pg_components)
              + CostOf(pg_lines, DOMAIN pg_lines) = initial_budget

C29_Calls ==
    \* a placement refused for insufficient budget changes nothing
    /\ (pg_ret'.refused_for = "budget") =>
          UNCHANGED <<pg_components, pg_lines, grid_nodes, budget,
                      component_counter, line_counter, node_counter,
                      command_history, current_command_index>>
    \* a placement adds an id to its map, and a redo adds an id to one map:
    \* no existing id is overwritten
    /\ (pg_ret'.op = "place_component" /\ pg_ret'.ok) =>
          Cardinality(DOMAIN pg_components')
             = Cardinality(DOMAIN pg_components) + 1
    /\ (pg_ret'.op = "place_line" /\ pg_ret'.ok) =>
          Cardinality(DOMAIN pg_lines') = Cardinality(DOMAIN pg_lines) + 1
    /\ (pg_ret'.op = "redo" /\ pg_ret'.ok) => Placed' = Placed + 1

\* C29: after any sequence of place_component, place_line, place_grid_node,
\* undo, redo and clear_grid the budget is never negative and the budget,
\* the costs of the components in the grid and the costs of the lines in
\* the grid add up to the initial 500000; a placement refused for
\* insufficient budget changes nothing, and no placement or redo overwrites
\* an existing component or line id.
C29_BudgetConserved == [](C29_Balance) /\ [][C29_Calls]_vars

\* a line was refused for its cost, with a component and a line in the grid
C29_Witness ==
    /\ pg_ret.op = "place_line"
    /\ pg_ret.refused_for = "budget"
    /\ Cardinality(DOMAIN pg_lines) = 1
    /\ budget < initial_budget

\* the commands a placement can run in the current game
Placeable ==
    {ComponentCommand(p[1], p[2]) : p \in ComponentPlacements}
      \cup {LineCommand(t[1], t[2], t[3]) :
              t \in {u \in LineTypes \X (DOMAIN pg_components)
                                     \X (DOMAIN pg_components) :
                        u[2] # u[3]}}

\* the command as the history keeps it after its undo
Kept(cmd) == [cmd EXCEPT !.object = KeptObject(Execute(Game, cmd), cmd)]

C30_Inverse ==
    \A cmd \in Placeable :
        \* undo right after the placement gives the game before it
        /\ Undo(Execute(Game, cmd), cmd) = Game
        \* redo right after that undo gives the game after the placement
        /\ Execute(Undo(Execute(Game, cmd), cmd), Kept(cmd))
              = Execute(Game, cmd)

C30_History ==
    /\ -1 <= current_command_index
    /\ current_command_index < Len(command_history)
    /\ Len(command_history) <= max_history_size

C30_TailDiscarded ==
    (pg_ret'.op \in {"place_component", "place_line", "place_grid_node"}
        /\ pg_ret'.ok)
      => current_command_index' = Len(command_history') - 1

\* C30: undo and redo are inverse: undo immediately after a successful
\* placement restores the component, line and node maps, the connection
\* lists, the budget and the id counters to their values before the
\* placement, and redo immediately after that undo restores the values after
\* the placement; throughout, -1 <= current_command_index <
\* len(command_history) <= 50, and a new command after an undo discards the
\* redo tail, so that redo is unavailable.
C30_UndoRedoInverse ==
    [](C30_Inverse /\ C30_History) /\ [][C30_TailDiscarded]_vars

(***************************************************************************)
(* Specifications                                                          *)
(***************************************************************************)
InitN1 ==
    InitEngine /\ ParkedSim /\ ParkedBS /\ ParkedFCR /\ ParkedGame /\ ParkedStd
    /\ ParkedPF /\ ParkedAVR /\ ParkedPG
SpecN1 == InitN1 /\ [][NextN1]_vars

InitSimulation ==
    ParkedN1 /\ InitSim /\ ParkedBS /\ ParkedFCR /\ ParkedGame /\ ParkedStd
    /\ ParkedPF /\ ParkedAVR /\ ParkedPG
SpecSim == InitSimulation /\ [][NextSim]_vars

InitBlackstart ==
    ParkedN1 /\ ParkedSim /\ InitBS /\ ParkedFCR /\ ParkedGame /\ ParkedStd
    /\ ParkedPF /\ ParkedAVR /\ ParkedPG
SpecBS == InitBlackstart /\ [][NextBS]_vars

InitReconfiguration ==
    ParkedN1 /\ ParkedSim /\ InitReconfigured /\ ParkedFCR /\ ParkedGame
    /\ ParkedStd /\ ParkedPF /\ ParkedAVR /\ ParkedPG
SpecReconf == InitReconfiguration /\ [][NextReconfigured]_vars

InitActivation ==
    ParkedN1 /\ ParkedSim /\ ParkedBS /\ InitFCR /\ ParkedGame /\ ParkedStd
    /\ ParkedPF /\ ParkedAVR /\ ParkedPG
SpecFCR == InitActivation /\ [][NextFCR]_vars

InitStepped ==
    /\ ParkedN1 /\ ParkedSim /\ ParkedBS /\ InitGame /\ ParkedStd /\ ParkedPF /\ ParkedAVR /\ ParkedPG
    /\ fcr_available = GridFcr(grid)
    /\ fcr_input = 0
    /\ fcr_activation = 0
    /\ fcr_response = 0
    /\ fcr_activations = 0
SpecGame == InitStepped /\ [][NextGame]_vars

InitProbed ==
    /\ ParkedN1 /\ ParkedSim /\ ParkedBS /\ InitStd /\ ParkedPF /\ ParkedAVR /\ ParkedPG
    /\ fcr_available = GridFcr(grid)
    /\ fcr_input = 0
    /\ fcr_activation = 0
    /\ fcr_response = 0
    /\ fcr_activations = 0
SpecStd == InitProbed /\ [][NextStd]_vars

InitPowerFlow ==
    /\ ParkedN1 /\ ParkedSim /\ ParkedBS /\ ParkedFCR /\ ParkedGame /\ ParkedStd
    /\ InitPF /\ ParkedAVR /\ ParkedPG
SpecPF == InitPowerFlow /\ [][NextPF]_vars

InitVoltageControl ==
    /\ ParkedN1 /\ ParkedSim /\ ParkedBS /\ ParkedFCR /\ ParkedGame /\ ParkedStd
    /\ ParkedPF /\ InitAVR /\ ParkedPG
SpecAVR == InitVoltageControl /\ [][NextAVR]_vars

InitPlacement ==
    /\ ParkedN1 /\ ParkedSim /\ ParkedBS /\ ParkedFCR /\ ParkedGame /\ ParkedStd
    /\ ParkedPF /\ ParkedAVR /\ InitPG
SpecPG == InitPlacement /\ [][NextPG]_vars
SpecUndo == InitPlacement /\ [][NextUndo]_vars

====
